---- MODULE Spec2Model ----
(***************************************************************************)
(* Backup execution engine of velld (apps/api/internal/backup).            *)
(*                                                                         *)
(* The repository holds two builds of BackupService:                       *)
(*   "streaming"  src/unnamed/part_004: executeBackup pipes the dump to    *)
(*                the first S3 provider and copies it to the others;       *)
(*                executeFileBasedBackup is its fallback;                  *)
(*   "filebased"  src/apps/api/internal/backup/backup_service.go:          *)
(*                executeBackup lets the dump tool write the staging file  *)
(*                and uploads that file provider by provider.              *)
(* Specification Spec follows one backup from StartBackup to the end of    *)
(* its coordinator under either build.  Specification LogSpec follows the  *)
(* log bus (sendLog, flushLogQueue, cleanupLogStream, AppendLog).          *)
(*                                                                         *)
(* Conventions: provider ids are 1..NumProviders, 0 is a nil pointer or a  *)
(* NULL column; object keys are numbers (see StreamKey, FileKey).          *)
(* Collaborators outside the backup package (connection registry, crypto,  *)
(* notifier transports) succeed; single-statement writes of the            *)
(* repository (UPDATE backups, INSERT backup_s3_providers) succeed.        *)
(***************************************************************************)
EXTENDS Integers, Sequences, FiniteSets, Bags, TLC

\* ---------------------------------------------------------------- bounds
NumProviders == 2
\* longest s3_provider_ids list of a request
MaxReq == 2
\* chunks of dump output the subprocess may still have to write
MaxChunks == 3
\* chunks the operating system's stdout pipe buffers
PipeCap == 1
\* lines one goroutine passes to sendLog
MaxLines == 3
\* capacity of a log channel (make(chan string, 100)), scaled down
ChanCap == 1
\* queue length at which sendLog starts a flush at once (10), scaled down
FlushThreshold == 3
\* AppendLog calls that may end with "database is locked"
MaxLockErrors == 1
\* backups with rows in backup_logs, goroutines calling AppendLog, valid
\* lines of one call, rows of backup_logs
NumBackups == 2
NumAppenders == 2
MaxBatch == 2
MaxRows == 3
\* AppendLog: maxRetries := 5
maxRetries == 5
\* owners of S3 providers, ids a provider row can take, concurrent requests
\* on providers, requests of one caller
NumOwners == 2
NumRows == 3
NumCallers == 2
MaxOps == 2
\* rows of table backup_schedules
NumSchedules == 2
\* connections, concurrent StartBackup calls, rows of table backups, clock
\* ticks in a second, last tick of the clock
NumConnections == 2
NumStarters == 2
MaxBackups == 3
TicksPerSecond == 2
MaxClock == 3
\* share tokens, concurrent resolves, resolves in all, lifetime of a link in
\* ticks (hours in the program)
NumTokens == 2
NumResolvers == 2
MaxResolves == 2
ExpiresIn == 2
\* CreateShareableLink of the handler: req.ExpiresIn = 24, req.ExpiresIn = 168
DefaultExpiresIn == 24
MaxExpiresIn == 168
\* calls of UpdateBackup and AppendLog on the one backup
MaxRepoCalls == 3
\* code points in a credential, bucket or endpoint string
MaxStrLen == 3
\* lines the dump subprocess has written when it fails
MaxOutputLines == 3
\* goroutines working on the log streams, calls they make in all, lines a
\* write queue holds
NumThreads == 3
MaxLockCalls == 3
MaxQueueLen == 1

\* viewers attached to the log stream of one backup
NumViewers == 2
\* how far below 0 and above 168 the requested expires_in values go
Beyond == 5

VARIABLES
  world,       \* build, connection type, request, the owner's providers and default
  pc,          \* position of the coordinator goroutine
  providers,   \* executeBackup / uploadToS3Providers: resolved provider list
  backup,      \* the in-memory *Backup the coordinator mutates
  row,         \* the persisted backups row
  bindings,    \* backup_s3_providers rows of this backup: provider -> key
  objects,     \* objects stored in the sinks: <<provider, key>>
  stagingFile, \* a file exists at backupPath
  cmd,         \* the dump subprocess
  pipe,        \* stdout plumbing of the streaming build
  fan,         \* parallel upload workers and their result channel
  locals,      \* cmdErr, outputErr, copyErr, err, uploadErr of the coordinator
  logStream,   \* logStreams[backupID]: "none", "open", "closed"
  logged,      \* kinds of lines passed to sendLog by the coordinator
  notified,    \* notifications the coordinator has sent
  logChan,       \* lines buffered in the channel logStreams[backupID]
  logWriteQueue, \* logWriteQueue[backupID]
  sender,        \* the goroutine calling sendLog and, last, cleanupLogStream
  flushers,      \* bag of running flushLogQueue and retry goroutines
  backup_logs,   \* rows of table backup_logs of this backup
  viewed,        \* frames written to the response of the viewer
  viewer,        \* the StreamBackupLogs request of a viewer
  lockErrors,    \* number of AppendLog calls that ended with "database is locked"
  appendLogMutex, \* BackupRepository.appendLogMutex: 0 or the goroutine holding it
  appenders,      \* goroutines calling AppendLog: position, arguments, locals
  logTable,       \* table backup_logs: per backup id the line_number of each row
  s3_providers,   \* table s3_providers: id -> user_id (0: no row), is_default
  callers,        \* requests on S3 providers: position, arguments, locals
  boot,           \* NewBackupService: build, backup_schedules, position in recoverSchedules
  cronEntries,    \* cronManager: per schedule id the registered job and what it captured
  cronRuns,       \* executeCronBackup calls made by the cron runtime: <<entry, schedule>>
  clock,          \* time.Now(), in ticks
  backups,        \* table backups: connection_id, status, path, and the filename of the run
  starters,       \* StartBackup calls: position and locals
  shareable_links, \* table shareable_links: token -> row
  resolvers,      \* GetShareableLink calls: position, token, returned values
  resolved,       \* calls made, and per token the calls that returned the pair without error
  call, \* a request to a handler or a call of a function: input and result
  db, \* the database of the repository: tables that exist, the backups row of one backup, its backup_logs rows
  threads, \* goroutines calling sendLog, flushLogQueue, cleanupLogStream, GetLogStream: position and locals
  logStreamsMutex, \* BackupService.logStreamsMutex: goroutines holding the read lock, goroutine holding the write lock
  logWriteQueueMutex, \* BackupService.logWriteQueueMutex: 0 or the goroutine holding it
  logStreams, \* per backup the channel StartBackup registered: open, or closed and deleted from the map
  queueLen, \* per backup len(logWriteQueue[backupID])
  lockCalls, \* calls started by the goroutines
  viewers \* the StreamBackupLogs requests of several viewers: position and frames written

runVars == <<world, pc, providers, backup, row, bindings, objects, stagingFile,
             cmd, pipe, fan, locals, logged, notified>>

coordVars == <<runVars, logStream>>

busVars == <<logChan, logWriteQueue, sender, flushers, backup_logs, viewed, viewer,
             lockErrors>>

appendVars == <<appendLogMutex, appenders, logTable>>

providerVars == <<s3_providers, callers>>

scheduleVars == <<boot, cronEntries, cronRuns>>

startVars == <<clock, backups, starters>>

shareVars == <<shareable_links, resolvers, resolved>>

callVars == <<call>>

\* the variables of the specifications other than Spec and LogSpec
repoVars == <<db>>

lockVars == <<threads, logStreamsMutex, logWriteQueueMutex, logStreams, queueLen, lockCalls>>

viewVars == <<viewers>>

extVars == <<appendVars, providerVars, scheduleVars, startVars, shareVars, callVars, repoVars, lockVars, viewVars>>

vars == <<coordVars, busVars, extVars>>

ProviderIDs == 1..NumProviders
\* an id of a request that names no provider of the owner
UnknownID == NumProviders + 1

Terminal == {"success", "completed_with_errors", "failed"}

\* {pathPrefix}/{folder}/{filename}.gz in provider p
StreamKey(p) == 100 + p
\* {pathPrefix}/{filename} in provider p; p = 0 is the legacy settings bucket
FileKey(p) == 200 + p

RECURSIVE SeqOfSet(_)
SeqOfSet(S) == IF S = {} THEN <<>>
               ELSE LET m == CHOOSE x \in S : \A y \in S : x <= y
                    IN <<m>> \o SeqOfSet(S \ {m})

SeqsUpTo(S, n) == UNION {[1..k -> S] : k \in 0..n}

FilterOwned(ids, owned) == SelectSeq(ids, LAMBDA id : id \in owned)

\* provider resolution of the streaming build
ResolveAll(w, allOK) ==
  IF Len(w.ids) > 0 THEN FilterOwned(w.ids, w.owned)
  ELSE IF allOK /\ w.owned # {} THEN SeqOfSet(w.owned)
  ELSE IF w.default # 0 THEN <<w.default>>
  ELSE <<>>

\* provider resolution of the file-based build
ResolveDefault(w) ==
  IF Len(w.ids) > 0 THEN FilterOwned(w.ids, w.owned)
  ELSE IF w.default # 0 THEN <<w.default>>
  ELSE <<>>

UpdateBackup_WithoutCompletedTime(b) ==
  [status |-> b.Status, completed_time |-> FALSE,
   s3_object_key |-> b.S3ObjectKey, s3_provider_id |-> b.S3ProviderID]

\* INSERT INTO backups
CreateBackup(b) ==
  [status |-> b.Status, completed_time |-> b.CompletedTime,
   s3_object_key |-> b.S3ObjectKey, s3_provider_id |-> b.S3ProviderID]

\* UPDATE backups SET status, s3_object_key, s3_provider_id, completed_time, ...
UpdateBackup(b) ==
  [status |-> b.Status, completed_time |-> b.CompletedTime,
   s3_object_key |-> b.S3ObjectKey, s3_provider_id |-> b.S3ProviderID]

AddBackupS3Provider(bs, p, key) ==
  IF bs[p] = 0 THEN [bs EXCEPT ![p] = key] ELSE [bs EXCEPT ![p] = p]

NoRow == [status |-> "none", completed_time |-> FALSE,
          s3_object_key |-> 0, s3_provider_id |-> 0]

NewBackup == [Status |-> "in_progress", CompletedTime |-> FALSE,
              S3ObjectKey |-> 0, S3ProviderID |-> 0]

IdleFan == [wk |-> <<>>, chan |-> <<>>, successCount |-> 0, uploadErrors |-> 0]

IdlePipe == [os |-> 0, copy |-> "none", pr |-> "none", up |-> "none", stderr |-> "none",
             stdout |-> "none"]

NoLocals == [cmdErr |-> FALSE, outputErr |-> FALSE, copyErr |-> FALSE, err |-> FALSE,
             uploadErr |-> "nil", legacy |-> "none"]

Worlds ==
  [impl : {"streaming", "filebased"},
   type : {"postgresql", "mysql", "mongodb", "redis"},
   ids : SeqsUpTo(ProviderIDs \cup {UnknownID}, MaxReq),
   owned : SUBSET ProviderIDs,
   default : 0..NumProviders]

IdleSender == [pc |-> "idle", emitted |-> <<>>, line |-> <<>>, batch |-> <<>>]

\* no StreamBackupLogs request yet; at: lines sent when the request ended
NoViewer == [pc |-> "none", at |-> 0]

IdleBus ==
  /\ logChan = <<>>
  /\ logWriteQueue = <<>>
  /\ sender = IdleSender
  /\ flushers = EmptyBag
  /\ backup_logs = <<>>
  /\ viewed = <<>>
  /\ viewer = NoViewer
  /\ lockErrors = 0

BackupIDs == 1..NumBackups

Appenders == 1..NumAppenders

IdleAppender == [pc |-> "idle", backupID |-> 0, lines |-> 0, attempt |-> 0,
                 startLineNumber |-> 0]

Owners == 1..NumOwners

RowIDs == 1..NumRows

Callers == 1..NumCallers

NoProvider == [user_id |-> 0, is_default |-> FALSE]

IdleCaller == [pc |-> "idle", ops |-> 0, op |-> "none", userID |-> 0, id |-> 0,
               IsDefault |-> FALSE]

ScheduleIDs == 1..NumSchedules

\* a row of backup_schedules: enabled, and next_run_time NULL, before or after
\* the start of the service
ScheduleRows == [enabled : BOOLEAN, next_run_time : {"null", "past", "future"}]

\* the process before NewBackupService; schedule is the loop variable
NotStarted == [pc |-> "new", build |-> "none", table |-> <<>>, schedules |-> <<>>,
               err |-> FALSE, i |-> 0, schedule |-> 0, immediate |-> <<>>]

\* no cron job; captured = 0 stands for a reference to the loop variable
NoEntry == [registered |-> FALSE, captured |-> 0]

Connections == 1..NumConnections

Starters == 1..NumStarters

IdleStarter == [pc |-> "idle", connectionID |-> 0, filename |-> <<>>, backupPath |-> <<>>]

Tokens == 1..NumTokens

Resolvers == 1..NumResolvers

\* no row with this token; expires_at is in whole seconds
NoLink == [exists |-> FALSE, backup_id |-> 0, s3_provider_id |-> 0, expires_at |-> 0,
           access_count |-> 0]

\* the values GetShareableLink returned: "", "", err or backupID, providerID, err
NoPair == [token |-> 0, backupID |-> 0, providerID |-> 0, err |-> FALSE]

IdleResolver == [pc |-> "idle", token |-> 0, out |-> NoPair]

\* no request yet
NoCall == [op |-> "none"]

\* sql.NullString and *string: a text is a sequence of lines (strings.Split by
\* "\n"), the empty string is one empty line
Null == [valid |-> FALSE, text |-> <<>>]

Str(t) == [valid |-> TRUE, text |-> t]

\* a database created before the backup_logs migration, with the row that
\* StartBackup inserted for one backup
OldDatabase ==
  [tables |-> {"backups"},
   backups |-> [status |-> "in_progress", path |-> 1, s3_object_key |-> 0, s3_provider_id |-> 0,
                size |-> 0, logs |-> Null, started_time |-> 0, completed_time |-> 0 - 1,
                updated_at |-> 0],
   backup_logs |-> <<>>,
   calls |-> 0]

Threads == 1..NumThreads

IdleThread == [pc |-> "idle", b |-> 0, exists |-> FALSE, batch |-> 0, ret |-> "idle"]

Viewers == 1..NumViewers

NoAttached == [pc |-> "none", viewed |-> <<>>]

IdleExt ==
  /\ appendLogMutex = 0
  /\ appenders = [c \in Appenders |-> IdleAppender]
  /\ logTable = [b \in BackupIDs |-> <<>>]
  /\ s3_providers = [r \in RowIDs |-> NoProvider]
  /\ callers = [c \in Callers |-> IdleCaller]
  /\ boot = NotStarted
  /\ cronEntries = [id \in ScheduleIDs |-> NoEntry]
  /\ cronRuns = {}
  /\ clock = 0
  /\ backups = <<>>
  /\ starters = [c \in Starters |-> IdleStarter]
  /\ shareable_links = [t \in Tokens |-> NoLink]
  /\ resolvers = [c \in Resolvers |-> IdleResolver]
  /\ resolved = [calls |-> 0, ok |-> [t \in Tokens |-> 0]]
  /\ call = NoCall
  /\ db = OldDatabase
  /\ threads = [t \in Threads |-> IdleThread]
  /\ logStreamsMutex = [readers |-> {}, writer |-> 0]
  /\ logWriteQueueMutex = 0
  /\ logStreams = [b \in BackupIDs |-> "open"]
  /\ queueLen = [b \in BackupIDs |-> 0]
  /\ lockCalls = 0
  /\ viewers = [v \in Viewers |-> NoAttached]

Init ==
  /\ world \in {w \in Worlds : w.default = 0 \/ w.default \in w.owned}
  /\ pc = "idle"
  /\ providers = <<>>
  /\ backup = NewBackup
  /\ row = NoRow
  /\ bindings = [p \in ProviderIDs |-> 0]
  /\ objects = {}
  /\ stagingFile \in BOOLEAN
  /\ cmd = [state |-> "none", out |-> 0, err |-> FALSE]
  /\ pipe = IdlePipe
  /\ fan = IdleFan
  /\ locals = NoLocals
  /\ logStream = "none"
  /\ logged = {}
  /\ notified = {}
  /\ IdleBus
  /\ IdleExt

cleanupLogStream == "closed"

StartBackup ==
  /\ pc = "idle"
  /\ logStream' = "open"
  /\ \E created \in BOOLEAN :
       IF created
       THEN /\ row' = CreateBackup(NewBackup)
            /\ pc' = "tunnel"
       ELSE /\ row' = row
            /\ pc' = "rejected"
  /\ UNCHANGED <<busVars, extVars, world, providers, backup, bindings, objects, stagingFile, cmd, pipe,
                 fan, locals, logged, notified>>

\* ------------------------------------------------------------------------
\* executeBackup, both builds: SSH tunnel setup and its early return
setupSSHTunnelIfNeeded ==
  /\ pc = "tunnel"
  /\ \E ok \in BOOLEAN :
       IF ok
       THEN /\ pc' = IF world.impl = "streaming" THEN "resolve" ELSE "v1_cmd"
            /\ logged' = logged \cup {"Starting backup"}
            /\ logStream' = logStream
       ELSE /\ pc' = "returned"
            /\ logged' = logged \cup {"[ERROR] Failed to setup SSH tunnel"}
            /\ logStream' = cleanupLogStream
  /\ UNCHANGED <<busVars, extVars, world, providers, backup, row, bindings, objects, stagingFile, cmd,
                 pipe, fan, locals, notified>>

\* executeBackup, streaming build: provider resolution and the choice between
\* streaming and executeFileBasedBackup
resolveProviders ==
  /\ pc = "resolve"
  /\ \E allOK \in BOOLEAN :
       LET ps == ResolveAll(world, allOK) IN
       /\ providers' = ps
       /\ IF ps = <<>>
          THEN /\ pc' = "fb_stat"
               /\ logged' = logged \cup {"[INFO] No S3 providers configured, falling back to file-based backup"}
          ELSE IF world.type \in {"mongodb", "redis"}
          THEN /\ pc' = "fb_stat"
               /\ logged' = logged \cup {"[INFO] using file-based backup"}
          ELSE /\ pc' = "startCmd"
               /\ logged' = logged
  /\ UNCHANGED <<busVars, extVars, world, backup, row, bindings, objects, stagingFile, cmd, pipe, fan,
                 locals, logStream, notified>>

\* executeBackup, streaming build: dump tool lookup, pipe creation, cmd.Start and
\* the two goroutines reading stderr and copying stdout into the io.Pipe
startStreamingCmd ==
  /\ pc = "startCmd"
  /\ \E res \in {"ok", "toolMissing", "pipeErr", "startErr"}, n \in 1..MaxChunks :
       IF res = "ok"
       THEN /\ cmd' = [state |-> "running", out |-> n, err |-> FALSE]
            /\ pipe' = [os |-> 0, copy |-> "reading", pr |-> "open", up |-> "none",
                        stderr |-> "reading", stdout |-> "open"]
            /\ pc' = "s3client"
            /\ logged' = logged \cup {"[INFO] Starting streaming upload"}
            /\ logStream' = logStream
       ELSE /\ n = 1
            /\ pc' = "returned"
            /\ logged' = logged \cup {"[ERROR] " \o res}
            /\ logStream' = cleanupLogStream
            /\ UNCHANGED <<cmd, pipe>>
  /\ UNCHANGED <<busVars, extVars, world, providers, backup, row, bindings, objects, stagingFile, fan,
                 locals, notified>>

\* the dump subprocess writes one chunk to its stdout; it blocks while the
\* operating system's pipe buffer is full
cmdWrite ==
  /\ cmd.state = "running"
  /\ cmd.out > 0
  /\ pipe.os < PipeCap
  /\ pipe.stdout = "open"
  /\ cmd' = [cmd EXCEPT !.out = @ - 1]
  /\ pipe' = [pipe EXCEPT !.os = @ + 1]
  /\ UNCHANGED <<busVars, extVars, world, pc, providers, backup, row, bindings, objects, stagingFile, fan,
                 locals, logStream, logged, notified>>

\* the file the dump tool leaves at backupPath when it exits
DumpFile(type, failed, before) ==
  IF failed THEN {before, TRUE}
  ELSE IF type = "mongodb" THEN {before}
  ELSE {TRUE}

\* the dump subprocess exits: cleanly once all its output is written, or with an
\* error at any point where it is not blocked in a write
cmdExit ==
  /\ cmd.state = "running"
  /\ \E failed \in BOOLEAN :
       /\ failed \/ cmd.out = 0
       /\ cmd.out = 0 \/ pipe.os < PipeCap
       /\ cmd' = [state |-> "exited", out |-> 0, err |-> failed]
       /\ IF world.impl = "filebased"
          THEN stagingFile' \in DumpFile(world.type, failed, stagingFile)
          ELSE stagingFile' = stagingFile
  /\ UNCHANGED <<busVars, extVars, world, pc, providers, backup, row, bindings, objects, pipe, fan,
                 locals, logStream, logged, notified>>

\* goroutine scanning stderr: returns at end of file, or earlier on a read error
stderrReader ==
  /\ pipe.stderr = "reading"
  /\ \E e \in BOOLEAN :
       /\ e \/ cmd.state = "exited"
       /\ pipe' = [pipe EXCEPT !.stderr = "done"]
       /\ locals' = [locals EXCEPT !.outputErr = IF ~e \/ @ THEN @ ELSE TRUE]
  /\ logged' = logged \cup {"dump output"}
  /\ UNCHANGED <<busVars, extVars, world, pc, providers, backup, row, bindings, objects, stagingFile, cmd,
                 fan, logStream, notified>>

\* goroutine io.Copy(pw, stdoutPipe): takes a chunk from the subprocess
copyRead ==
  /\ pipe.copy = "reading"
  /\ pipe.stdout = "open"
  /\ pipe.os > 0
  /\ pipe' = [pipe EXCEPT !.os = @ - 1, !.copy = "writing"]
  /\ UNCHANGED <<busVars, extVars, world, pc, providers, backup, row, bindings, objects, stagingFile, cmd,
                 fan, locals, logStream, logged, notified>>

\* goroutine io.Copy(pw, stdoutPipe): returns at end of file, when cmd.Wait has
\* closed stdoutPipe, or when its write finds the read side closed; then pw.Close()
copyReturn ==
  /\ \/ /\ pipe.copy = "reading"
        /\ pipe.stdout = "open"
        /\ pipe.os = 0
        /\ cmd.state = "exited"
        /\ locals' = locals
     \/ /\ pipe.copy = "reading"
        /\ pipe.stdout = "closed"
        /\ locals' = [locals EXCEPT !.copyErr = TRUE]
     \/ /\ pipe.copy = "writing"
        /\ pipe.pr = "closed"
        /\ locals' = [locals EXCEPT !.copyErr = TRUE]
  /\ pipe' = [pipe EXCEPT !.copy = "done"]
  /\ UNCHANGED <<busVars, extVars, world, pc, providers, backup, row, bindings, objects, stagingFile, cmd,
                 fan, logStream, logged, notified>>

\* executeBackup, streaming build: NewS3Storage for the first provider; on an
\* error pr.Close(), cmd.Wait(), wg.Wait(), cleanupLogStream and return
firstNewS3Storage ==
  /\ pc = "s3client"
  /\ \E ok \in BOOLEAN :
       IF ok
       THEN /\ pipe' = [pipe EXCEPT !.up = "reading"]
            /\ pc' = "upload"
            /\ logged' = logged \cup {"[INFO] Streaming compressed backup"}
       ELSE /\ pipe' = [pipe EXCEPT !.pr = "closed"]
            /\ pc' = "clientErrWait"
            /\ logged' = logged \cup {"[ERROR] Failed to create S3 client"}
  /\ UNCHANGED <<busVars, extVars, world, providers, backup, row, bindings, objects, stagingFile, cmd,
                 fan, locals, logStream, notified>>

clientErrReturn ==
  /\ pc = "clientErrWait"
  /\ cmd.state = "exited"
  /\ pipe.stderr = "done"
  /\ pipe' = [pipe EXCEPT !.stdout = "closed"]
  /\ pc' = "returned"
  /\ logStream' = cleanupLogStream
  /\ UNCHANGED <<busVars, extVars, world, providers, backup, row, bindings, objects, stagingFile, cmd,
                 fan, locals, logged, notified>>

\* S3Storage.UploadCompressedStream reads one chunk from pr
uploadRead ==
  /\ pc = "upload"
  /\ pipe.up = "reading"
  /\ pipe.copy = "writing"
  /\ pipe' = [pipe EXCEPT !.copy = "reading"]
  /\ UNCHANGED <<busVars, extVars, world, pc, providers, backup, row, bindings, objects, stagingFile, cmd,
                 fan, locals, logStream, logged, notified>>

\* S3Storage.UploadCompressedStream returns: the key once pr is at end of file,
\* or an error of the sink at any point; it leaves pr open
UploadCompressedStream ==
  /\ pc = "upload"
  /\ pipe.up = "reading"
  /\ \E ok \in BOOLEAN :
       /\ ok => pipe.copy = "done"
       /\ pipe' = [pipe EXCEPT !.up = IF ok THEN "ok" ELSE "err"]
       /\ locals' = [locals EXCEPT !.err = ~ok]
       /\ objects' = IF ok THEN objects \cup {<<providers[1], StreamKey(providers[1])>>}
                     ELSE objects
  /\ pc' = "cmdWait"
  /\ UNCHANGED <<busVars, extVars, world, providers, backup, row, bindings, stagingFile, cmd, fan,
                 logStream, logged, notified>>

\* executeBackup, streaming build: cmdErr := cmd.Wait(), which returns after the
\* subprocess has exited and closes the parent's ends of the pipes
cmdWait ==
  /\ pc = "cmdWait"
  /\ cmd.state = "exited"
  /\ locals' = [locals EXCEPT !.cmdErr = cmd.err]
  /\ pipe' = [pipe EXCEPT !.stdout = "closed"]
  /\ pc' = "wgWait"
  /\ UNCHANGED <<busVars, extVars, world, providers, backup, row, bindings, objects, stagingFile, cmd,
                 fan, logStream, logged, notified>>

\* executeBackup, streaming build: wg.Wait() for the stderr goroutine, pr.Close()
wgWait ==
  /\ pc = "wgWait"
  /\ pipe.stderr = "done"
  /\ pipe' = [pipe EXCEPT !.pr = "closed"]
  /\ pc' = "evaluate"
  /\ UNCHANGED <<busVars, extVars, world, providers, backup, row, bindings, objects, stagingFile, cmd,
                 fan, locals, logStream, logged, notified>>

StreamFailed_IgnoresCmdErr(l) == l.outputErr \/ l.copyErr \/ l.err

\* cmdErr != nil || outputErr != nil || copyErr != nil || err != nil
StreamFailed(l) == l.cmdErr \/ l.outputErr \/ l.copyErr \/ l.err

afterEvaluate_NoReturn(failed, n) ==
  IF n > 1 THEN "additional" ELSE "finalize"

\* where executeBackup continues after the check of the four errors: the failed
\* branch returns, the other goes on to the additional providers or to the end
afterEvaluate(failed, n) ==
  IF failed THEN "returned"
  ELSE IF n > 1 THEN "additional" ELSE "finalize"

\* executeBackup, streaming build: the outcome of the pipeline; the failed branch
\* persists "failed", the other records the first provider
evaluateStream ==
  /\ pc = "evaluate"
  /\ IF StreamFailed(locals)
     THEN /\ backup' = [backup EXCEPT !.Status = "failed", !.CompletedTime = TRUE]
          /\ row' = UpdateBackup(backup')
          /\ bindings' = bindings
          /\ logged' = logged \cup {"[ERROR] Backup failed"}
          /\ logStream' = cleanupLogStream
     ELSE /\ backup' = [backup EXCEPT !.S3ObjectKey = StreamKey(providers[1]),
                                      !.S3ProviderID = providers[1]]
          /\ row' = row
          /\ bindings' = AddBackupS3Provider(bindings, providers[1], StreamKey(providers[1]))
          /\ logged' = logged \cup {"[INFO] S3 Object Key stored"}
          /\ logStream' = logStream
  /\ pc' = afterEvaluate(StreamFailed(locals), Len(providers))
  /\ UNCHANGED <<busVars, extVars, world, providers, objects, stagingFile, cmd, pipe, fan, locals,
                 notified>>

\* ------------------------------------------------------------------------
\* parallel workers: one per provider, each sends one result on a channel
\* that the caller drains
StartWorkers(ps) ==
  [wk |-> [i \in 1..Len(ps) |-> "run"], chan |-> <<>>, successCount |-> 0,
   uploadErrors |-> 0]

AllWorkersDone(f) == \A i \in 1..Len(f.wk) : f.wk[i] = "done"

\* uploadToAdditionalS3Providers: the source storage and the source object
uploadToAdditionalS3Providers ==
  /\ pc = "additional"
  /\ \E sourceOK \in BOOLEAN :
       IF sourceOK
       THEN /\ fan' = StartWorkers(Tail(providers))
            /\ locals' = locals
            /\ pc' = "copyCollect"
       ELSE /\ fan' = fan
            /\ locals' = [locals EXCEPT !.uploadErr = "source"]
            /\ pc' = "finalize"
  /\ logged' = logged \cup {"[INFO] Copying backup to additional S3 provider(s)"}
  /\ UNCHANGED <<busVars, extVars, world, providers, backup, row, bindings, objects, stagingFile, cmd,
                 pipe, logStream, notified>>

\* uploadToAdditionalS3Providers: the worker of one additional provider
copyWorker ==
  /\ pc = "copyCollect"
  /\ \E i \in 1..Len(fan.wk), ok \in BOOLEAN :
       LET p == Tail(providers)[i] IN
       /\ fan.wk[i] = "run"
       /\ fan' = [fan EXCEPT !.wk[i] = "done",
                             !.chan = Append(@, [provider |-> p,
                                                 objectKey |-> IF ok THEN StreamKey(p) ELSE 0,
                                                 err |-> ~ok])]
       /\ objects' = IF ok THEN objects \cup {<<p, StreamKey(p)>>} ELSE objects
       /\ bindings' = IF ok THEN AddBackupS3Provider(bindings, p, StreamKey(p))
                      ELSE bindings
       /\ logged' = logged \cup {IF ok THEN "[SUCCESS] Backup copied" ELSE "[INFO] Copying backup"}
  /\ UNCHANGED <<busVars, extVars, world, pc, providers, backup, row, stagingFile, cmd, pipe, locals,
                 logStream, notified>>

\* uploadToAdditionalS3Providers: the loop over copyChan and the return value
copyCollect ==
  /\ pc = "copyCollect"
  /\ \/ /\ fan.chan # <<>>
        /\ fan' = [fan EXCEPT !.chan = Tail(@),
                              !.successCount = IF Head(fan.chan).err THEN @ ELSE @ + 1,
                              !.uploadErrors = IF Head(fan.chan).err THEN @ + 1 ELSE @]
        /\ UNCHANGED <<pc, locals>>
     \/ /\ fan.chan = <<>>
        /\ AllWorkersDone(fan)
        /\ locals' = [locals EXCEPT !.uploadErr =
                        IF fan.uploadErrors > 0 THEN "partial copy failure" ELSE "nil"]
        /\ pc' = "finalize"
        /\ fan' = fan
  /\ UNCHANGED <<busVars, extVars, world, providers, backup, row, bindings, objects, stagingFile, cmd,
                 pipe, logStream, logged, notified>>

\* executeBackup, streaming build: the end of the success path
finalizeStream ==
  /\ pc = "finalize"
  /\ backup' = [backup EXCEPT !.CompletedTime = TRUE, !.Status = "success"]
  /\ row' = UpdateBackup(backup')
  /\ notified' = notified \cup {"success"}
  /\ logged' = logged \cup
       ({"[SUCCESS] Backup completed and streamed to all S3 providers successfully"}
        \cup IF locals.uploadErr # "nil"
             THEN {"[WARNING] Some additional S3 uploads failed"} ELSE {})
  /\ pc' = "returned"
  /\ UNCHANGED <<busVars, extVars, world, providers, bindings, objects, stagingFile, cmd, pipe, fan,
                 locals, logStream>>

\* go func() { time.Sleep(2 * time.Second); s.cleanupLogStream(id) }()
delayedCleanup ==
  /\ pc = "returned"
  /\ logStream = "open"
  /\ logStream' = cleanupLogStream
  /\ UNCHANGED <<busVars, extVars, world, pc, providers, backup, row, bindings, objects, stagingFile, cmd,
                 pipe, fan, locals, logged, notified>>

\* ------------------------------------------------------------------------
\* executeFileBasedBackup (streaming build): os.Stat of the staging path
executeFileBasedBackup ==
  /\ pc = "fb_stat"
  /\ IF stagingFile
     THEN /\ backup' = [backup EXCEPT !.CompletedTime = TRUE]
          /\ logged' = logged \cup {"Backup completed successfully"}
          /\ logStream' = logStream
          /\ pc' = "uploadProviders"
     ELSE /\ backup' = backup
          /\ logged' = logged \cup {"[ERROR] Failed to get backup file info"}
          /\ logStream' = cleanupLogStream
          /\ pc' = "returned"
  /\ UNCHANGED <<busVars, extVars, world, providers, row, bindings, objects, stagingFile, cmd, pipe, fan,
                 locals, notified>>

\* uploadToS3Providers, head: the provider list, the "No S3 providers
\* configured" error, the legacy fallback, or the start of the uploads
uploadToS3Providers ==
  /\ pc = "uploadProviders"
  /\ \E allOK \in BOOLEAN :
       LET ps == IF world.impl = "streaming" THEN ResolveAll(world, allOK)
                 ELSE ResolveDefault(world) IN
       /\ world.impl = "filebased" => allOK
       /\ providers' = ps
       /\ IF ps # <<>>
          THEN /\ fan' = StartWorkers(ps)
               /\ locals' = locals
               /\ pc' = IF world.impl = "streaming" THEN "uploadCollect" ELSE "uploadLoop"
          ELSE IF Len(world.ids) > 0
          THEN /\ fan' = fan
               /\ locals' = [locals EXCEPT !.uploadErr = "No S3 providers configured"]
               /\ pc' = "status"
          ELSE /\ fan' = fan
               /\ locals' = locals
               /\ pc' = "legacy"
  /\ UNCHANGED <<busVars, extVars, world, backup, row, bindings, objects, stagingFile, cmd, pipe,
                 logStream, logged, notified>>

\* uploadToS3IfEnabled: the legacy upload configured in the user settings
uploadToS3IfEnabled ==
  /\ pc = "legacy"
  /\ \E res \in {"settingsErr", "disabled", "misconfigured", "uploadErr", "ok"} :
       /\ res = "ok" => stagingFile
       /\ locals' = [locals EXCEPT
            !.legacy = res,
            !.uploadErr = IF res \in {"disabled", "ok"} THEN "nil" ELSE "legacy: " \o res]
       /\ backup' = IF res = "ok" THEN [backup EXCEPT !.S3ObjectKey = FileKey(0)]
                    ELSE backup
       /\ objects' = IF res = "ok" THEN objects \cup {<<0, FileKey(0)>>} ELSE objects
       /\ logged' = logged \cup {"[INFO] legacy S3: " \o res}
  /\ pc' = "status"
  /\ UNCHANGED <<busVars, extVars, world, providers, row, bindings, stagingFile, cmd, pipe, fan, logStream,
                 notified>>

\* the result of one provider's NewS3Storage and UploadFileWithLogging
UploadOutcome(p, ok) ==
  [provider |-> p, objectKey |-> IF ok THEN FileKey(p) ELSE 0, err |-> ~ok]

\* the caller's handling of one result: counters, the first successful key and
\* provider in the backup record, the binding row
Collected(f, r) ==
  [f EXCEPT !.successCount = IF r.err THEN @ ELSE @ + 1,
            !.uploadErrors = IF r.err THEN @ + 1 ELSE @]

RecordFirst(b, r) ==
  IF ~r.err /\ b.S3ObjectKey = 0
  THEN [b EXCEPT !.S3ObjectKey = r.objectKey, !.S3ProviderID = r.provider]
  ELSE b

\* uploadToS3Providers, streaming build: the goroutine of one provider
uploadWorker ==
  /\ pc = "uploadCollect"
  /\ \E i \in 1..Len(fan.wk), ok \in BOOLEAN :
       LET r == UploadOutcome(providers[i], ok) IN
       /\ fan.wk[i] = "run"
       /\ ok => stagingFile
       /\ fan' = [fan EXCEPT !.wk[i] = "done", !.chan = Append(@, r)]
       /\ objects' = IF ok THEN objects \cup {<<r.provider, r.objectKey>>} ELSE objects
       /\ logged' = logged \cup {IF ok THEN "[SUCCESS] Backup successfully uploaded"
                                 ELSE "[ERROR] Failed to upload to"}
  /\ UNCHANGED <<busVars, extVars, world, pc, providers, backup, row, bindings, stagingFile, cmd, pipe,
                 locals, logStream, notified>>

\* uploadToS3Providers, streaming build: one iteration of the loop over uploadChan
uploadCollect ==
  /\ pc = "uploadCollect"
  /\ fan.chan # <<>>
  /\ LET r == Head(fan.chan) IN
       /\ fan' = Collected([fan EXCEPT !.chan = Tail(@)], r)
       /\ backup' = RecordFirst(backup, r)
       /\ bindings' = IF r.err THEN bindings
                      ELSE AddBackupS3Provider(bindings, r.provider, r.objectKey)
  /\ UNCHANGED <<busVars, extVars, world, pc, providers, row, objects, stagingFile, cmd, pipe, locals,
                 logStream, logged, notified>>

\* uploadToS3Providers, file-based build: one iteration of the loop over providers
uploadLoop ==
  /\ pc = "uploadLoop"
  /\ \E i \in 1..Len(fan.wk), ok \in BOOLEAN :
       LET r == UploadOutcome(providers[i], ok) IN
       /\ fan.wk[i] = "run"
       /\ \A j \in 1..(i - 1) : fan.wk[j] = "done"
       /\ ok => stagingFile
       /\ fan' = Collected([fan EXCEPT !.wk[i] = "done"], r)
       /\ objects' = IF ok THEN objects \cup {<<r.provider, r.objectKey>>} ELSE objects
       /\ backup' = RecordFirst(backup, r)
       /\ bindings' = IF r.err THEN bindings
                      ELSE AddBackupS3Provider(bindings, r.provider, r.objectKey)
       /\ logged' = logged \cup {IF ok THEN "[SUCCESS] Backup successfully uploaded"
                                 ELSE "[ERROR] Failed to upload to"}
  /\ UNCHANGED <<busVars, extVars, world, pc, providers, row, stagingFile, cmd, pipe, locals, logStream,
                 notified>>

\* uploadToS3Providers, tail: the error it returns
UploadResult(f) ==
  IF f.successCount = 0 THEN "failed to upload to any S3 provider"
  ELSE IF f.uploadErrors > 0 THEN "partial upload failure"
  ELSE "nil"

uploadReturn ==
  /\ pc \in {"uploadCollect", "uploadLoop"}
  /\ fan.chan = <<>>
  /\ AllWorkersDone(fan)
  /\ locals' = [locals EXCEPT !.uploadErr = UploadResult(fan)]
  /\ pc' = "status"
  /\ UNCHANGED <<busVars, extVars, world, providers, backup, row, bindings, objects, stagingFile, cmd,
                 pipe, fan, logStream, logged, notified>>

FinalStatus_AllFailedIsFailed(uploadErr) ==
  IF uploadErr = "nil" THEN "success"
  ELSE IF uploadErr = "partial upload failure" THEN "completed_with_errors"
  ELSE IF uploadErr = "No S3 providers configured" THEN "success"
  ELSE "failed"

\* the status both builds derive from the error of uploadToS3Providers
FinalStatus(uploadErr) ==
  IF uploadErr = "nil" THEN "success"
  ELSE IF uploadErr = "partial upload failure" THEN "completed_with_errors"
  ELSE IF uploadErr = "No S3 providers configured" THEN "success"
  ELSE "completed_with_errors"

\* the staging file is removed after an upload that set key and provider
RemoveLocal(b) == b.S3ObjectKey # 0 /\ b.S3ProviderID # 0

\* executeFileBasedBackup (streaming build) and executeBackup (file-based build)
\* after uploadToS3Providers: status, UpdateBackup, notification, local cleanup
determineStatus ==
  /\ pc = "status"
  /\ backup' = [backup EXCEPT !.Status = FinalStatus(locals.uploadErr)]
  /\ row' = UpdateBackup(backup')
  /\ notified' = IF world.impl = "streaming" /\ backup'.Status = "success"
                 THEN notified \cup {"success"} ELSE notified
  /\ stagingFile' = IF RemoveLocal(backup') THEN FALSE ELSE stagingFile
  /\ logged' = logged \cup {"status: " \o backup'.Status}
  /\ pc' = "returned"
  /\ UNCHANGED <<busVars, extVars, world, providers, bindings, objects, cmd, pipe, fan, locals, logStream>>

\* ------------------------------------------------------------------------
\* executeBackup, file-based build: dump tool lookup, pipes, cmd.Start and the
\* goroutines scanning stdout and stderr
startFileCmd ==
  /\ pc = "v1_cmd"
  /\ \E res \in {"ok", "toolMissing", "pipeErr", "startErr"} :
       IF res = "ok"
       THEN /\ cmd' = [state |-> "running", out |-> 0, err |-> FALSE]
            /\ pipe' = [IdlePipe EXCEPT !.stderr = "reading", !.stdout = "reading"]
            /\ pc' = "v1_wait"
            /\ logged' = logged
            /\ logStream' = logStream
       ELSE /\ pc' = "returned"
            /\ logged' = logged \cup {"[ERROR] " \o res}
            /\ logStream' = cleanupLogStream
            /\ UNCHANGED <<cmd, pipe>>
  /\ UNCHANGED <<busVars, extVars, world, providers, backup, row, bindings, objects, stagingFile, fan,
                 locals, notified>>

\* goroutine scanning stdout (file-based build)
stdoutReader ==
  /\ pipe.stdout = "reading"
  /\ \E e \in BOOLEAN :
       /\ e \/ cmd.state = "exited"
       /\ pipe' = [pipe EXCEPT !.stdout = "done"]
       /\ locals' = [locals EXCEPT !.outputErr = IF e THEN TRUE ELSE @]
  /\ logged' = logged \cup {"dump output"}
  /\ UNCHANGED <<busVars, extVars, world, pc, providers, backup, row, bindings, objects, stagingFile, cmd,
                 fan, logStream, notified>>

\* executeBackup, file-based build: cmd.Wait(), wg.Wait(), the failed branch,
\* os.Stat of the staging file
waitFileCmd ==
  /\ pc = "v1_wait"
  /\ cmd.state = "exited"
  /\ pipe.stdout = "done"
  /\ pipe.stderr = "done"
  /\ locals' = [locals EXCEPT !.cmdErr = cmd.err]
  /\ IF cmd.err \/ locals.outputErr
     THEN /\ backup' = [backup EXCEPT !.Status = "failed", !.CompletedTime = TRUE]
          /\ row' = UpdateBackup(backup')
          /\ logged' = logged \cup {"[ERROR] Backup failed"}
          /\ logStream' = cleanupLogStream
          /\ pc' = "returned"
     ELSE IF ~stagingFile
     THEN /\ UNCHANGED <<backup, row>>
          /\ logged' = logged \cup {"[ERROR] Failed to get backup file info"}
          /\ logStream' = cleanupLogStream
          /\ pc' = "returned"
     ELSE /\ backup' = [backup EXCEPT !.CompletedTime = TRUE]
          /\ row' = row
          /\ logged' = logged \cup {"Backup completed successfully"}
          /\ logStream' = logStream
          /\ pc' = "uploadProviders"
  /\ UNCHANGED <<busVars, extVars, world, providers, bindings, objects, stagingFile, cmd, pipe, fan,
                 notified>>

\* ------------------------------------------------------------------------
\* the log bus.  A line is [id, text]; text "" is an empty message.

Range(q) == {q[i] : i \in 1..Len(q)}

\* AppendLog: strings.Split of the joined batch, the filter of empty lines
ValidLines(logs) == SelectSeq(logs, LAMBDA l : l.text # "")

\* SELECT COALESCE(MAX(line_number), 0) FROM backup_logs WHERE backup_id = $1
MaxLineNumber(store) ==
  IF store = <<>> THEN 0
  ELSE CHOOSE m \in {store[i].line_number : i \in 1..Len(store)} :
         \A i \in 1..Len(store) : store[i].line_number <= m

\* AppendLog, a committed transaction: one row per valid line, numbered from
\* the current maximum
AppendLog(store, logs) ==
  LET valid == ValidLines(logs)
      start == MaxLineNumber(store) + 1
  IN store \o [i \in 1..Len(valid) |->
                 [line_number |-> start + i - 1, log_line |-> valid[i]]]

NewFlusher == [pc |-> "take", logs |-> <<>>]

\* sendLog, first half: the non-blocking send on the channel of the backup
sendLog ==
  /\ sender.pc = "idle"
  /\ Len(sender.emitted) < MaxLines
  /\ \E text \in {"line", ""} :
       LET l == [id |-> Len(sender.emitted) + 1, text |-> text] IN
       /\ sender' = [sender EXCEPT !.pc = "enqueue", !.line = l]
       /\ logChan' = IF logStream = "open" /\ Len(logChan) < ChanCap
                     THEN Append(logChan, l) ELSE logChan
  /\ UNCHANGED <<coordVars, extVars, logWriteQueue, flushers, backup_logs, viewed, viewer, lockErrors>>

sendLogEnqueue_ThresholdOnly ==
  /\ sender.pc = "enqueue"
  /\ logWriteQueue' = Append(logWriteQueue, sender.line)
  /\ flushers' = IF Len(logWriteQueue') >= FlushThreshold
                 THEN flushers (+) SetToBag({NewFlusher}) ELSE flushers
  /\ sender' = [sender EXCEPT !.pc = "idle", !.emitted = Append(@, sender.line),
                              !.line = <<>>]
  /\ UNCHANGED <<coordVars, extVars, logChan, backup_logs, viewed, viewer, lockErrors>>

\* sendLog, second half: the append to logWriteQueue and the flush goroutine
\* started at the threshold or for the first line of a queue
sendLogEnqueue ==
  /\ sender.pc = "enqueue"
  /\ logWriteQueue' = Append(logWriteQueue, sender.line)
  /\ flushers' = IF Len(logWriteQueue') >= FlushThreshold \/ Len(logWriteQueue') = 1
                 THEN flushers (+) SetToBag({NewFlusher}) ELSE flushers
  /\ sender' = [sender EXCEPT !.pc = "idle", !.emitted = Append(@, sender.line),
                              !.line = <<>>]
  /\ UNCHANGED <<coordVars, extVars, logChan, backup_logs, viewed, viewer, lockErrors>>

\* flushLogQueue: takes the whole queue, or returns when it is empty
flushTake ==
  /\ \E f \in BagToSet(flushers) :
       /\ f.pc = "take"
       /\ flushers' = IF logWriteQueue = <<>> THEN flushers (-) SetToBag({f})
                      ELSE (flushers (-) SetToBag({f}))
                           (+) SetToBag({[pc |-> "append", logs |-> logWriteQueue]})
  /\ logWriteQueue' = <<>>
  /\ UNCHANGED <<coordVars, extVars, logChan, sender, backup_logs, viewed, viewer, lockErrors>>

\* flushLogQueue: the AppendLog call and the branch on its error
flushAppend ==
  /\ \E f \in BagToSet(flushers), res \in {"ok", "locked", "error"} :
       /\ f.pc = "append"
       /\ res = "locked" => lockErrors < MaxLockErrors
       /\ backup_logs' = IF res = "ok" THEN AppendLog(backup_logs, f.logs)
                         ELSE backup_logs
       /\ flushers' = IF res = "locked"
                      THEN (flushers (-) SetToBag({f}))
                           (+) SetToBag({[f EXCEPT !.pc = "requeue"]})
                      ELSE flushers (-) SetToBag({f})
       /\ lockErrors' = IF res = "locked" THEN lockErrors + 1 ELSE lockErrors
  /\ UNCHANGED <<coordVars, extVars, logChan, logWriteQueue, sender, viewed, viewer>>

\* flushLogQueue after "database is locked": the batch is appended to the
\* queue and the retry goroutine is started with the same batch
flushRequeue ==
  /\ \E f \in BagToSet(flushers) :
       /\ f.pc = "requeue"
       /\ logWriteQueue' = logWriteQueue \o f.logs
       /\ flushers' = (flushers (-) SetToBag({f}))
                      (+) SetToBag({[f EXCEPT !.pc = "retry"]})
  /\ UNCHANGED <<coordVars, extVars, logChan, sender, backup_logs, viewed, viewer, lockErrors>>

\* the retry goroutine: appends its batch to the queue, then flushLogQueue
flushRetry ==
  /\ \E f \in BagToSet(flushers) :
       /\ f.pc = "retry"
       /\ logWriteQueue' = logWriteQueue \o f.logs
       /\ flushers' = (flushers (-) SetToBag({f})) (+) SetToBag({NewFlusher})
  /\ UNCHANGED <<coordVars, extVars, logChan, sender, backup_logs, viewed, viewer, lockErrors>>

\* cleanupLogStream, first half: close and unregister the channel, take the
\* remaining queue
cleanupLogStreamClose ==
  /\ sender.pc = "idle"
  /\ logStream' = cleanupLogStream
  /\ sender' = [sender EXCEPT !.pc = IF logWriteQueue = <<>> THEN "done" ELSE "flush",
                              !.batch = logWriteQueue]
  /\ logWriteQueue' = <<>>
  /\ UNCHANGED <<runVars, extVars, logChan, flushers, backup_logs, viewed, viewer, lockErrors>>

\* cleanupLogStream, second half: the final AppendLog, whose error is printed
cleanupLogStreamFlush ==
  /\ sender.pc = "flush"
  /\ \E ok \in BOOLEAN :
       backup_logs' = IF ok THEN AppendLog(backup_logs, sender.batch) ELSE backup_logs
  /\ sender' = [sender EXCEPT !.pc = "done", !.batch = <<>>]
  /\ UNCHANGED <<coordVars, extVars, logChan, logWriteQueue, flushers, viewed, viewer, lockErrors>>

\* the frame written when the channel is found closed
StreamEnded == [id |-> 0, text |-> "[STREAM ENDED]"]

\* the frame written when no channel is registered
Waiting == [id |-> 0, text |-> "Waiting for backup to start..."]

\* the frame written when the wait for a channel times out
NotFound == [id |-> 0, text |-> "Backup not found or already completed"]

\* StreamBackupLogs: GetLogStream, and the first frame when there is no channel
StreamBackupLogs ==
  /\ viewer.pc = "none"
  /\ viewer' = [viewer EXCEPT !.pc = IF logStream = "open" THEN "streaming" ELSE "waiting"]
  /\ viewed' = IF logStream = "open" THEN viewed ELSE Append(viewed, Waiting)
  /\ UNCHANGED <<coordVars, extVars, logChan, logWriteQueue, sender, flushers, backup_logs,
                 lockErrors>>

\* StreamBackupLogs, the wait loop: a tick that finds the channel, or the
\* timeout
viewerWait ==
  /\ viewer.pc = "waiting"
  /\ \/ /\ logStream = "open"
        /\ viewer' = [viewer EXCEPT !.pc = "streaming"]
        /\ viewed' = viewed
     \/ /\ viewer' = [viewer EXCEPT !.pc = "returned", !.at = Len(sender.emitted)]
        /\ viewed' = Append(viewed, NotFound)
  /\ UNCHANGED <<coordVars, extVars, logChan, logWriteQueue, sender, flushers, backup_logs,
                 lockErrors>>

\* StreamBackupLogs, streamLogs: a receive that yields a buffered line
viewerReceive ==
  /\ viewer.pc = "streaming"
  /\ logChan # <<>>
  /\ viewed' = Append(viewed, Head(logChan))
  /\ logChan' = Tail(logChan)
  /\ UNCHANGED <<coordVars, extVars, logWriteQueue, sender, flushers, backup_logs, viewer,
                 lockErrors>>

viewerStreamEnded_Undrained ==
  /\ viewer.pc = "streaming"
  /\ logStream = "closed"
  /\ viewed' = Append(viewed, StreamEnded)
  /\ viewer' = [viewer EXCEPT !.pc = "ended", !.at = Len(sender.emitted)]
  /\ UNCHANGED <<coordVars, extVars, logChan, logWriteQueue, sender, flushers, backup_logs,
                 lockErrors>>

\* StreamBackupLogs, streamLogs: a receive on the closed and drained channel
viewerStreamEnded ==
  /\ viewer.pc = "streaming"
  /\ logChan = <<>>
  /\ logStream = "closed"
  /\ viewed' = Append(viewed, StreamEnded)
  /\ viewer' = [viewer EXCEPT !.pc = "ended", !.at = Len(sender.emitted)]
  /\ UNCHANGED <<coordVars, extVars, logChan, logWriteQueue, sender, flushers, backup_logs,
                 lockErrors>>

\* StreamBackupLogs: the request context is done, the viewer has disconnected
viewerDisconnect ==
  /\ viewer.pc \in {"waiting", "streaming"}
  /\ viewer' = [viewer EXCEPT !.pc = "gone", !.at = Len(sender.emitted)]
  /\ UNCHANGED <<coordVars, extVars, logChan, logWriteQueue, sender, flushers, backup_logs,
                 viewed, lockErrors>>

Next ==
  \/ StartBackup
  \/ setupSSHTunnelIfNeeded
  \/ resolveProviders
  \/ startStreamingCmd
  \/ cmdWrite
  \/ cmdExit
  \/ stderrReader
  \/ copyRead
  \/ copyReturn
  \/ firstNewS3Storage
  \/ clientErrReturn
  \/ uploadRead
  \/ UploadCompressedStream
  \/ cmdWait
  \/ wgWait
  \/ evaluateStream
  \/ uploadToAdditionalS3Providers
  \/ copyWorker
  \/ copyCollect
  \/ finalizeStream
  \/ delayedCleanup
  \/ executeFileBasedBackup
  \/ uploadToS3Providers
  \/ uploadToS3IfEnabled
  \/ uploadWorker
  \/ uploadCollect
  \/ uploadLoop
  \/ uploadReturn
  \/ determineStatus
  \/ startFileCmd
  \/ stdoutReader
  \/ waitFileCmd

Spec == Init /\ [][Next]_vars

\* the log bus of one backup that StartBackup has created
LogInit ==
  /\ world = [impl |-> "streaming", type |-> "postgresql", ids |-> <<>>, owned |-> {},
              default |-> 0]
  /\ pc = "tunnel"
  /\ providers = <<>>
  /\ backup = NewBackup
  /\ row = CreateBackup(NewBackup)
  /\ bindings = [p \in ProviderIDs |-> 0]
  /\ objects = {}
  /\ stagingFile = FALSE
  /\ cmd = [state |-> "none", out |-> 0, err |-> FALSE]
  /\ pipe = IdlePipe
  /\ fan = IdleFan
  /\ locals = NoLocals
  /\ logStream = "open"
  /\ logged = {}
  /\ notified = {}
  /\ IdleBus
  /\ IdleExt

LogNext ==
  \/ sendLog
  \/ sendLogEnqueue
  \/ flushTake
  \/ flushAppend
  \/ flushRequeue
  \/ flushRetry
  \/ cleanupLogStreamClose
  \/ cleanupLogStreamFlush
  \/ StreamBackupLogs
  \/ viewerWait
  \/ viewerReceive
  \/ viewerStreamEnded
  \/ viewerDisconnect

LogSpec == LogInit /\ [][LogNext]_vars

\* the live channel alone: the sender, the close and the viewer, while the
\* flush goroutines, which leave logStream, logChan, viewed and viewer
\* unchanged, do not run
ViewNext ==
  \/ sendLog
  \/ sendLogEnqueue
  \/ cleanupLogStreamClose
  \/ cleanupLogStreamFlush
  \/ StreamBackupLogs
  \/ viewerWait
  \/ viewerReceive
  \/ viewerStreamEnded
  \/ viewerDisconnect

ViewSpec == LogInit /\ [][ViewNext]_vars

\* the write queue alone: the sender, the flush goroutines and the close.
\* The goroutines sendLog has started and a sendLog or cleanupLogStream call
\* under way are scheduled fairly; whether another line is sent or the stream
\* is cleaned up is left open.
FlushNext ==
  \/ sendLog
  \/ sendLogEnqueue
  \/ flushTake
  \/ flushAppend
  \/ flushRequeue
  \/ flushRetry
  \/ cleanupLogStreamClose
  \/ cleanupLogStreamFlush

FlushSpec ==
  /\ LogInit
  /\ [][FlushNext]_vars
  /\ WF_vars(sendLogEnqueue)
  /\ WF_vars(flushTake)
  /\ WF_vars(flushAppend)
  /\ WF_vars(flushRequeue)
  /\ WF_vars(flushRetry)
  /\ WF_vars(cleanupLogStreamFlush)

\* ------------------------------------------------------------------------
\* AppendLog step by step, called concurrently for several backups

notAppendVars == <<coordVars, busVars, providerVars, scheduleVars, startVars, shareVars, callVars, repoVars, lockVars, viewVars>>

MutexFree_NoLock(holder) == TRUE

\* r.appendLogMutex.Lock() goes through when no goroutine holds the mutex
MutexFree(holder) == holder = 0

\* the state of a caller after one statement of an attempt: on to the next
\* statement, back to Begin after "database is locked" while attempts are
\* left, or out of AppendLog with the error
AfterStatement(a, res, next) ==
  IF res = "ok" /\ next # "idle" THEN [a EXCEPT !.pc = next]
  ELSE IF res = "locked" /\ a.attempt < maxRetries - 1
  THEN [a EXCEPT !.pc = "begin", !.attempt = @ + 1]
  ELSE IdleAppender

\* defer r.appendLogMutex.Unlock()
Unlock(holder, a) == IF a.pc = "idle" THEN 0 ELSE holder

\* the rows one committed batch adds
NewRows(c, a) ==
  [i \in 1..a.lines |-> [line_number |-> a.startLineNumber + i - 1, log_line |-> c]]

\* rows of backup_logs, and valid lines of the calls in progress
RowsWritten ==
  Cardinality(UNION {{<<b, i>> : i \in 1..Len(logTable[b])} : b \in BackupIDs})

RowsPending ==
  Cardinality(UNION {{<<c, i>> : i \in 1..appenders[c].lines} : c \in Appenders})

\* AppendLog entry: the mutex, the split of the batch into its valid lines
appendLogLock ==
  /\ \E c \in Appenders, b \in BackupIDs, n \in 0..MaxBatch :
       /\ appenders[c].pc = "idle"
       /\ RowsWritten + RowsPending + n <= MaxRows
       /\ MutexFree(appendLogMutex)
       /\ appendLogMutex' = c
       /\ appenders' = [appenders EXCEPT ![c] =
            [pc |-> "begin", backupID |-> b, lines |-> n,
             attempt |-> 0, startLineNumber |-> 0]]
  /\ UNCHANGED <<notAppendVars, logTable>>

\* AppendLog: tx, err := r.db.Begin()
appendLogBegin ==
  /\ \E c \in Appenders, res \in {"ok", "locked", "error"} :
       /\ appenders[c].pc = "begin"
       /\ appenders' = [appenders EXCEPT ![c] = AfterStatement(@, res, "select")]
       /\ appendLogMutex' = Unlock(appendLogMutex, appenders'[c])
  /\ UNCHANGED <<notAppendVars, logTable>>

\* AppendLog: SELECT COALESCE(MAX(line_number), 0), startLineNumber, and the
\* return when the batch has no valid line
appendLogSelect ==
  /\ \E c \in Appenders, res \in {"ok", "locked", "error"} :
       LET a == appenders[c]
           read == [a EXCEPT !.startLineNumber = MaxLineNumber(logTable[a.backupID]) + 1]
       IN
       /\ a.pc = "select"
       /\ appenders' = [appenders EXCEPT ![c] =
            IF res = "ok"
            THEN AfterStatement(read, res, IF a.lines = 0 THEN "idle" ELSE "insert")
            ELSE AfterStatement(a, res, "insert")]
       /\ appendLogMutex' = Unlock(appendLogMutex, appenders'[c])
  /\ UNCHANGED <<notAppendVars, logTable>>

\* AppendLog: the batch INSERT and tx.Commit(); a failed attempt leaves no row
appendLogInsert ==
  /\ \E c \in Appenders, res \in {"ok", "locked", "error"} :
       LET a == appenders[c] IN
       /\ a.pc = "insert"
       /\ appenders' = [appenders EXCEPT ![c] = AfterStatement(a, res, "idle")]
       /\ logTable' = IF res = "ok"
                      THEN [logTable EXCEPT ![a.backupID] = @ \o NewRows(c, a)]
                      ELSE logTable
       /\ appendLogMutex' = Unlock(appendLogMutex, appenders'[c])
  /\ UNCHANGED notAppendVars

AppendNext ==
  \/ appendLogLock
  \/ appendLogBegin
  \/ appendLogSelect
  \/ appendLogInsert

AppendSpec == LogInit /\ [][AppendNext]_vars

\* ------------------------------------------------------------------------
\* requests on the S3 providers of several owners, each statement a step

notProviderVars == <<coordVars, busVars, appendVars, scheduleVars, startVars, shareVars, callVars, repoVars, lockVars, viewVars>>

\* the request has returned
Return(a) == [IdleCaller EXCEPT !.ops = a.ops + 1]

\* uuid.New(): an id no row has and no pending CreateS3Provider will take
FreeRows ==
  {r \in RowIDs : s3_providers[r] = NoProvider}

PendingCreates == {c \in Callers : callers[c].op = "CreateS3Provider"}

\* UPDATE s3_providers SET is_default = 0 WHERE user_id = $1
UnsetDefaults(table, userID) ==
  [r \in RowIDs |->
     IF table[r].user_id = userID THEN [table[r] EXCEPT !.is_default = FALSE]
     ELSE table[r]]

\* UPDATE s3_providers SET is_default = $9 WHERE id = $11 AND user_id = $12
SetIsDefault(table, userID, providerID, isDefault) ==
  [r \in RowIDs |->
     IF r = providerID /\ table[r].user_id = userID
     THEN [table[r] EXCEPT !.is_default = isDefault]
     ELSE table[r]]

\* the handler of SetDefaultProvider, up to the first statement
SetDefaultProviderCall ==
  \E c \in Callers, u \in Owners, id \in RowIDs :
    /\ callers[c].pc = "idle"
    /\ callers[c].ops < MaxOps
    /\ callers' = [callers EXCEPT ![c] = [@ EXCEPT !.pc = "unset", !.op = "SetDefaultProvider",
                                                   !.userID = u, !.id = id]]
    /\ UNCHANGED <<notProviderVars, s3_providers>>

\* CreateS3Provider, up to the first statement
CreateS3ProviderCall ==
  \E c \in Callers, u \in Owners, isDefault \in BOOLEAN :
    /\ callers[c].pc = "idle"
    /\ callers[c].ops < MaxOps
    /\ Cardinality(FreeRows) > Cardinality(PendingCreates)
    /\ callers' = [callers EXCEPT ![c] = [@ EXCEPT !.pc = IF isDefault THEN "unset" ELSE "insert",
                                                   !.op = "CreateS3Provider",
                                                   !.userID = u, !.IsDefault = isDefault]]
    /\ UNCHANGED <<notProviderVars, s3_providers>>

\* UpdateS3Provider, up to the first statement that writes: GetS3Provider and
\* the default flag of the request (nil, true, false)
UpdateS3ProviderCall ==
  \E c \in Callers, u \in Owners, id \in RowIDs, req \in {"nil", "true", "false"} :
    /\ callers[c].pc = "idle"
    /\ callers[c].ops < MaxOps
    /\ LET existing == s3_providers[id]
           isDefault == IF req = "nil" THEN existing.is_default ELSE req = "true"
       IN callers' = [callers EXCEPT ![c] =
            IF existing.user_id # u THEN Return(@)
            ELSE [@ EXCEPT !.pc = IF req = "true" /\ ~existing.is_default
                                   THEN "unset" ELSE "update",
                           !.op = "UpdateS3Provider", !.userID = u, !.id = id,
                           !.IsDefault = isDefault]]
    /\ UNCHANGED <<notProviderVars, s3_providers>>

\* SetDefaultProvider of the repository, first statement; with providerID ""
\* it is the whole effect
SetDefaultProviderUnset ==
  \E c \in Callers, ok \in BOOLEAN :
    /\ callers[c].pc = "unset"
    /\ s3_providers' = IF ok THEN UnsetDefaults(s3_providers, callers[c].userID)
                       ELSE s3_providers
    /\ callers' = [callers EXCEPT ![c] =
         IF ~ok THEN Return(@)
         ELSE [@ EXCEPT !.pc = CASE callers[c].op = "SetDefaultProvider" -> "set"
                                 [] callers[c].op = "CreateS3Provider" -> "insert"
                                 [] OTHER -> "update"]]
    /\ UNCHANGED notProviderVars

\* SetDefaultProvider of the repository, second statement
SetDefaultProviderSet ==
  \E c \in Callers, ok \in BOOLEAN :
    /\ callers[c].pc = "set"
    /\ s3_providers' = IF ok THEN SetIsDefault(s3_providers, callers[c].userID, callers[c].id, TRUE)
                       ELSE s3_providers
    /\ callers' = [callers EXCEPT ![c] = Return(@)]
    /\ UNCHANGED notProviderVars

\* CreateS3Provider of the repository: the INSERT
CreateS3Provider ==
  \E c \in Callers, ok \in BOOLEAN, r \in FreeRows :
    /\ callers[c].pc = "insert"
    /\ s3_providers' = IF ok
                       THEN [s3_providers EXCEPT ![r] = [user_id |-> callers[c].userID,
                                                         is_default |-> callers[c].IsDefault]]
                       ELSE s3_providers
    /\ callers' = [callers EXCEPT ![c] = Return(@)]
    /\ UNCHANGED notProviderVars

\* UpdateS3Provider of the repository: the UPDATE of the row
UpdateS3Provider ==
  \E c \in Callers, ok \in BOOLEAN :
    /\ callers[c].pc = "update"
    /\ s3_providers' = IF ok THEN SetIsDefault(s3_providers, callers[c].userID, callers[c].id,
                                               callers[c].IsDefault)
                       ELSE s3_providers
    /\ callers' = [callers EXCEPT ![c] = Return(@)]
    /\ UNCHANGED notProviderVars

ProviderNext ==
  \/ SetDefaultProviderCall
  \/ CreateS3ProviderCall
  \/ UpdateS3ProviderCall
  \/ SetDefaultProviderUnset
  \/ SetDefaultProviderSet
  \/ CreateS3Provider
  \/ UpdateS3Provider

ProviderSpec == LogInit /\ [][ProviderNext]_vars

\* ------------------------------------------------------------------------
\* the start of the service: recoverSchedules and the cron runtime

notScheduleVars == <<coordVars, busVars, appendVars, providerVars, startVars, shareVars, callVars, repoVars, lockVars, viewVars>>

\* SELECT ... FROM backup_schedules WHERE enabled = true ORDER BY created_at DESC,
\* ids being given in the order of creation
GetAllActiveSchedules(table) ==
  LET desc == [k \in 1..Len(table) |-> Len(table) + 1 - k]
  IN SelectSeq(desc, LAMBDA id : table[id].enabled)

\* the schedule a closure sees in the loop variable: before Go 1.22 the one
\* variable of the loop, from Go 1.22 on the variable of its own iteration
Captured(build, id) == IF build = "perLoop" THEN 0 ELSE id

\* NewBackupService up to the loop of recoverSchedules: the build of the
\* program, the rows found in backup_schedules and the query
NewBackupService ==
  /\ boot.pc = "new"
  /\ \E build \in {"perLoop", "perIteration"}, table \in [ScheduleIDs -> ScheduleRows],
        ok \in BOOLEAN :
       boot' = [boot EXCEPT !.build = build, !.table = table,
                            !.schedules = IF ok THEN GetAllActiveSchedules(table) ELSE <<>>,
                            !.err = ~ok, !.i = 1,
                            !.pc = IF ok THEN "loop" ELSE "failed"]
  /\ UNCHANGED <<notScheduleVars, cronEntries, cronRuns>>

\* recoverSchedules: one iteration of the loop, or its end
recoverSchedules ==
  /\ boot.pc \in {"loop", "failed"}
  /\ IF boot.pc = "loop" /\ boot.i <= Len(boot.schedules)
     THEN LET id == boot.schedules[boot.i] IN
          /\ boot' = [boot EXCEPT !.schedule = id, !.i = @ + 1,
                                  !.immediate = IF boot.table[id].next_run_time = "past"
                                                THEN Append(@, id) ELSE @]
          /\ cronEntries' = [cronEntries EXCEPT ![id] =
                                [registered |-> TRUE, captured |-> Captured(boot.build, id)]]
     ELSE /\ boot' = [boot EXCEPT !.pc = "start"]
          /\ cronEntries' = cronEntries
  /\ UNCHANGED <<notScheduleVars, cronRuns>>

\* cronManager.Start()
cronManagerStart ==
  /\ boot.pc = "start"
  /\ boot' = [boot EXCEPT !.pc = "running"]
  /\ UNCHANGED <<notScheduleVars, cronEntries, cronRuns>>

\* the cron runtime runs the job of an entry: executeCronBackup(schedule)
cronRun ==
  /\ boot.pc = "running"
  /\ \E id \in ScheduleIDs :
       /\ cronEntries[id].registered
       /\ cronRuns' = cronRuns \cup
            {<<id, IF cronEntries[id].captured = 0 THEN boot.schedule
                   ELSE cronEntries[id].captured>>}
  /\ UNCHANGED <<notScheduleVars, boot, cronEntries>>

ScheduleNext ==
  \/ NewBackupService
  \/ recoverSchedules
  \/ cronManagerStart
  \/ cronRun

ScheduleSpec == LogInit /\ [][ScheduleNext]_vars

\* ------------------------------------------------------------------------
\* concurrent StartBackup calls

notStartVars == <<coordVars, busVars, appendVars, providerVars, scheduleVars, shareVars, callVars, repoVars, lockVars, viewVars>>

\* time.Now().Format("20060102_150405"): the time cut to the second
Timestamp(now) == now \div TicksPerSecond

\* fmt.Sprintf("%s_%s.sql", conn.DatabaseName, timestamp); a connection stands
\* for its database name
Filename(conn, now) == <<conn, Timestamp(now)>>

\* filepath.Join(s.backupDir, SanitizeConnectionName(conn.Name), filename); a
\* connection stands for its folder
BackupPath(conn, now) == <<conn, Filename(conn, now)>>

\* the clock advances
Tick ==
  /\ clock < MaxClock
  /\ clock' = clock + 1
  /\ UNCHANGED <<notStartVars, backups, starters>>

\* StartBackup up to the Backup value: connection, timestamp, filename, path
StartBackupPath ==
  \E c \in Starters, conn \in Connections :
    /\ starters[c].pc = "idle"
    /\ Len(backups) + Cardinality({d \in Starters : starters[d].pc = "create"}) < MaxBackups
    /\ starters' = [starters EXCEPT ![c] = [pc |-> "create", connectionID |-> conn,
                                            filename |-> Filename(conn, clock),
                                            backupPath |-> BackupPath(conn, clock)]]
    /\ UNCHANGED <<notStartVars, clock, backups>>

\* StartBackup from the log channel on: CreateBackup and go executeBackup
StartBackupCreate ==
  \E c \in Starters, ok \in BOOLEAN :
    /\ starters[c].pc = "create"
    /\ backups' = IF ok
                  THEN Append(backups, [connection_id |-> starters[c].connectionID,
                                        status |-> "in_progress",
                                        path |-> starters[c].backupPath,
                                        filename |-> starters[c].filename])
                  ELSE backups
    /\ starters' = [starters EXCEPT ![c] = IdleStarter]
    /\ UNCHANGED <<notStartVars, clock>>

\* executeBackup has written the final status of its backup
executeBackupReturn ==
  \E id \in 1..Len(backups), status \in Terminal :
    /\ backups[id].status = "in_progress"
    /\ backups' = [backups EXCEPT ![id].status = status]
    /\ UNCHANGED <<notStartVars, clock, starters>>

StartNext ==
  \/ Tick
  \/ StartBackupPath
  \/ StartBackupCreate
  \/ executeBackupReturn

StartSpec == LogInit /\ [][StartNext]_vars

\* ------------------------------------------------------------------------
\* shareable links: creation and concurrent resolves

notShareVars == <<coordVars, busVars, appendVars, providerVars, scheduleVars, backups, starters, callVars, repoVars, lockVars, viewVars>>

\* expiresAt.Format(time.RFC3339): the instant cut to whole seconds
FormatRFC3339(t) == t \div TicksPerSecond

\* common.ParseTime of a stored RFC3339 string: the instant of that second
ParseTime(s) == s * TicksPerSecond

Expired_Never(now, expires_at) == FALSE

\* time.Now().After(expiresAt)
Expired(now, expires_at) == now > ParseTime(expires_at)

UpdateError_Ignored(ok) == FALSE

\* the error of the UPDATE, which GetShareableLink returns with the pair
UpdateError(ok) == ~ok

\* CreateShareableLink of the service and the repository: a new token, the
\* expiry, the INSERT; a token stands for the backup it was made for, and the
\* provider is "" (0) or given
CreateShareableLink ==
  \E t \in Tokens, p \in {0, 1} :
    /\ ~shareable_links[t].exists
    /\ \A u \in Tokens : u < t => shareable_links[u].exists
    /\ shareable_links' = [shareable_links EXCEPT ![t] =
         [exists |-> TRUE, backup_id |-> t, s3_provider_id |-> p,
          expires_at |-> FormatRFC3339(clock + ExpiresIn), access_count |-> 0]]
    /\ UNCHANGED <<notShareVars, clock, resolvers, resolved>>

\* DownloadViaShareableLink calls ValidateShareableLink with the token of the URL
ValidateShareableLink ==
  \E c \in Resolvers, t \in Tokens :
    /\ resolvers[c].pc = "idle"
    /\ resolved.calls < MaxResolves
    /\ resolvers' = [resolvers EXCEPT ![c] = [pc |-> "select", token |-> t, out |-> NoPair]]
    /\ resolved' = [resolved EXCEPT !.calls = @ + 1]
    /\ UNCHANGED <<notShareVars, clock, shareable_links>>

\* GetShareableLink: the SELECT by token and the test of the expiry
GetShareableLinkSelect ==
  \E c \in Resolvers, ok \in BOOLEAN :
    LET t == resolvers[c].token
        link == shareable_links[t]
    IN /\ resolvers[c].pc = "select"
       /\ resolvers' = [resolvers EXCEPT ![c] =
            IF ~ok \/ ~link.exists \/ Expired(clock, link.expires_at)
            THEN [@ EXCEPT !.pc = "idle", !.out = [NoPair EXCEPT !.token = t, !.err = TRUE]]
            ELSE [@ EXCEPT !.pc = "update",
                           !.out = [token |-> t, backupID |-> link.backup_id,
                                    providerID |-> link.s3_provider_id, err |-> FALSE]]]
       /\ UNCHANGED <<notShareVars, clock, shareable_links, resolved>>

\* GetShareableLink: UPDATE ... SET access_count = access_count + 1, and the
\* return of the pair with the error of the UPDATE
GetShareableLinkUpdate ==
  \E c \in Resolvers, ok \in BOOLEAN :
    LET t == resolvers[c].token IN
    /\ resolvers[c].pc = "update"
    /\ shareable_links' = IF ok THEN [shareable_links EXCEPT ![t].access_count = @ + 1]
                          ELSE shareable_links
    /\ resolvers' = [resolvers EXCEPT ![c] = [@ EXCEPT !.pc = "idle",
                                                       !.out.err = UpdateError(ok)]]
    /\ resolved' = IF UpdateError(ok) THEN resolved ELSE [resolved EXCEPT !.ok[t] = @ + 1]
    /\ UNCHANGED <<notShareVars, clock>>

ShareNext ==
  \/ Tick
  \/ CreateShareableLink
  \/ ValidateShareableLink
  \/ GetShareableLinkSelect
  \/ GetShareableLinkUpdate

ShareSpec == LogInit /\ [][ShareNext]_vars

\* ------------------------------------------------------------------------
\* requests to handlers and calls of functions, one at a time

notCallVars == <<coordVars, busVars, appendVars, providerVars, scheduleVars, startVars, shareVars, repoVars, lockVars, viewVars>>

\* json.Decode into ExpiresIn int: a missing field leaves 0
DecodeExpiresIn(body) == IF body.present THEN body.expires_in ELSE 0

ClampExpiresIn_NoMaximum(e) == IF e <= 0 THEN DefaultExpiresIn ELSE e

\* the handler: if req.ExpiresIn <= 0 { 24 }; if req.ExpiresIn > 168 { 168 }
ClampExpiresIn(e) ==
  LET d == IF e <= 0 THEN DefaultExpiresIn ELSE e
  IN IF d > MaxExpiresIn THEN MaxExpiresIn ELSE d

\* a POST to CreateShareableLink arrives with or without expires_in
ShareRequest ==
  /\ call = NoCall
  /\ \E present \in BOOLEAN, e \in (0 - Beyond)..(MaxExpiresIn + Beyond) :
       /\ ~present => e = 0
       /\ call' = [op |-> "share", body |-> [present |-> present, expires_in |-> e]]
  /\ UNCHANGED notCallVars

\* the handler and the service: expiresAt = now + expiresInHours hours
CreateShareableLinkHandler ==
  /\ call.op = "share"
  /\ call' = [op |-> "shared", body |-> call.body,
              expiresInHours |-> ClampExpiresIn(DecodeExpiresIn(call.body))]
  /\ UNCHANGED notCallVars

ExpiresNext ==
  \/ ShareRequest
  \/ CreateShareableLinkHandler

ExpiresSpec == LogInit /\ [][ExpiresNext]_vars

\* ------------------------------------------------------------------------
\* retention: the backups table and GetBackupsOlderThan

notRetentionVars == <<coordVars, busVars, appendVars, providerVars, scheduleVars, starters, shareVars, repoVars, lockVars, viewVars>>

\* INSERT INTO backups (...): the row of a new backup; CreatedAt is time.Now()
CreateBackupRow ==
  \E conn \in Connections :
    /\ Len(backups) < MaxBackups
    /\ backups' = Append(backups, [connection_id |-> conn, status |-> "in_progress",
                                   created_at |-> clock])
    /\ UNCHANGED <<notRetentionVars, clock, call>>

\* the WHERE clause of GetBackupsOlderThan
OlderThan(b, connectionID, cutoffTime) ==
  /\ b.connection_id = connectionID
  /\ b.created_at < cutoffTime
  /\ b.status = "completed"

\* GetBackupsOlderThan: the ids of the selected rows
GetBackupsOlderThan(connectionID, cutoffTime) ==
  {id \in 1..Len(backups) : OlderThan(backups[id], connectionID, cutoffTime)}

\* one call of GetBackupsOlderThan and its result
GetBackupsOlderThanCall ==
  \E conn \in Connections, cutoff \in 0..MaxClock :
    /\ call' = [op |-> "olderThan", connectionID |-> conn, cutoffTime |-> cutoff,
                backups |-> GetBackupsOlderThan(conn, cutoff)]
    /\ UNCHANGED <<notRetentionVars, clock, backups>>

RetentionNext ==
  \/ Tick
  \/ CreateBackupRow
  \/ executeBackupReturn
  \/ GetBackupsOlderThanCall

RetentionSpec == LogInit /\ [][RetentionNext]_vars

\* ------------------------------------------------------------------------
\* the repository: UpdateBackup and AppendLog on one backup

notRepoVars == <<coordVars, busVars, appendVars, providerVars, scheduleVars, backups, starters, shareVars, lockVars, viewVars>>

\* the *Backup values passed to UpdateBackup: a run in progress and a finished
\* run, each with Logs nil, "" or a text; CompletedTime -1 is nil
UpdateInputs ==
  {[Status |-> "in_progress", Path |-> 1, S3ObjectKey |-> 0, S3ProviderID |-> 0, Size |-> 0,
    StartedTime |-> 1, CompletedTime |-> 0 - 1, Logs |-> l] : l \in {Null, Str(<<"">>), Str(<<"new">>)}}
  \cup
  {[Status |-> "success", Path |-> 2, S3ObjectKey |-> 1, S3ProviderID |-> 1, Size |-> 1,
    StartedTime |-> 2, CompletedTime |-> 3, Logs |-> l] : l \in {Null, Str(<<"">>), Str(<<"new">>)}}

\* the log texts passed to AppendLog: "", one line, two lines
LogTexts == {<<"">>, <<"a">>, <<"a", "b">>}

\* migration create_backup_logs
Migration ==
  /\ "backup_logs" \notin db.tables
  /\ db' = [db EXCEPT !.tables = @ \cup {"backup_logs"}]
  /\ UNCHANGED <<notRepoVars, clock, call>>

UpdateBackupExec_AlwaysLogs(r, b, now) ==
  [r EXCEPT !.status = b.Status, !.path = b.Path, !.s3_object_key = b.S3ObjectKey,
            !.s3_provider_id = b.S3ProviderID, !.size = b.Size, !.logs = b.Logs,
            !.started_time = b.StartedTime, !.completed_time = b.CompletedTime,
            !.updated_at = now]

\* UpdateBackup: the UPDATE with the logs column when Logs is a non-empty text,
\* the UPDATE without it otherwise
UpdateBackupExec(r, b, now) ==
  IF b.Logs.valid /\ b.Logs.text # <<"">>
  THEN [r EXCEPT !.status = b.Status, !.path = b.Path, !.s3_object_key = b.S3ObjectKey,
                 !.s3_provider_id = b.S3ProviderID, !.size = b.Size, !.logs = b.Logs,
                 !.started_time = b.StartedTime, !.completed_time = b.CompletedTime,
                 !.updated_at = now]
  ELSE [r EXCEPT !.status = b.Status, !.path = b.Path, !.s3_object_key = b.S3ObjectKey,
                 !.s3_provider_id = b.S3ProviderID, !.size = b.Size,
                 !.started_time = b.StartedTime, !.completed_time = b.CompletedTime,
                 !.updated_at = now]

\* one call of UpdateBackup; err: db.Exec failed
UpdateBackupCall ==
  \E b \in UpdateInputs, err \in BOOLEAN :
    /\ db.calls < MaxRepoCalls
    /\ db' = [db EXCEPT !.calls = @ + 1,
                        !.backups = IF err THEN @ ELSE UpdateBackupExec(@, b, clock)]
    /\ call' = [op |-> "UpdateBackup", backup |-> b, now |-> clock, before |-> db, err |-> err]
    /\ UNCHANGED <<notRepoVars, clock>>

\* appendLogLegacy, a committed transaction: the text joined to the logs column
appendLogLegacy(r, logLine, now) ==
  [r EXCEPT !.logs = IF @.valid /\ @.text # <<"">> THEN Str(@.text \o logLine) ELSE Str(logLine),
            !.updated_at = now]

\* one call of AppendLog under the mutex.  The SELECT on backup_logs comes
\* first and its error is returned; the INSERT comes second and only its "no
\* such table" error leads to appendLogLegacy.  locked: the database stayed
\* locked through the retries.
AppendLogCall ==
  \E logLine \in LogTexts, locked \in BOOLEAN :
    LET lines == [i \in 1..Len(logLine) |-> [text |-> logLine[i]]]
        selectErr == "backup_logs" \notin db.tables
        insertErr == "backup_logs" \notin db.tables
        out == IF locked THEN [db |-> db, err |-> "database is locked"]
               ELSE IF selectErr THEN [db |-> db, err |-> "no such table: backup_logs"]
               ELSE IF ValidLines(lines) = <<>> THEN [db |-> db, err |-> "nil"]
               ELSE IF insertErr
               THEN [db |-> [db EXCEPT !.backups = appendLogLegacy(@, logLine, clock)],
                     err |-> "nil"]
               ELSE [db |-> [db EXCEPT !.backup_logs = AppendLog(@, lines)], err |-> "nil"]
    IN /\ db.calls < MaxRepoCalls
       /\ db' = [out.db EXCEPT !.calls = @ + 1]
       /\ call' = [op |-> "AppendLog", logLine |-> logLine, before |-> db, err |-> out.err]
       /\ UNCHANGED <<notRepoVars, clock>>

RepoNext ==
  \/ Tick
  \/ Migration
  \/ UpdateBackupCall
  \/ AppendLogCall

RepoSpec == LogInit /\ [][RepoNext]_vars

\* ------------------------------------------------------------------------
\* credential cleaning and NewS3Storage

\* code points: a letter, U+0020, U+000A, U+0000 and U+200B (a format
\* character, neither space nor control)
Runes == {"a", " ", "\n", "NUL", "ZWSP"}

\* unicode.IsSpace
IsSpace(r) == r \in {" ", "\n"}

\* unicode.IsControl
IsControl(r) == r \in {"\n", "NUL"}

Strings == SeqsUpTo(Runes, MaxStrLen)

\* strings.TrimSpace
RECURSIVE TrimLeft(_)
TrimLeft(s) == IF s # <<>> /\ IsSpace(Head(s)) THEN TrimLeft(Tail(s)) ELSE s

RECURSIVE TrimRight(_)
TrimRight(s) ==
  IF s # <<>> /\ IsSpace(s[Len(s)]) THEN TrimRight(SubSeq(s, 1, Len(s) - 1)) ELSE s

TrimSpace(s) == TrimRight(TrimLeft(s))

cleanCredential_TrimOnly(cred) == TrimSpace(cred)

\* cleanCredential (s3_storage.go): TrimSpace, then the runes that are neither
\* space nor control
cleanCredential(cred) ==
  SelectSeq(TrimSpace(cred), LAMBDA r : ~IsSpace(r) /\ ~IsControl(r))

\* cleanS3Credential (backup_service.go)
cleanS3Credential(cred) ==
  SelectSeq(TrimSpace(cred), LAMBDA r : ~IsSpace(r) /\ ~IsControl(r))

\* one call of cleanS3Credential
cleanS3CredentialCall ==
  /\ call = NoCall
  /\ \E cred \in Strings :
    /\ call' = [op |-> "cleanS3Credential", cred |-> cred, out |-> cleanS3Credential(cred)]
    /\ UNCHANGED notCallVars

\* NewS3Storage up to minio.New: the cleaned values, the checks for empty
\* values, and the values handed to the client
NewS3StorageCall ==
  /\ call = NoCall
  /\ \E s \in Strings, t \in Strings :
    LET config == [AccessKey |-> s, SecretKey |-> t, Endpoint |-> s, Bucket |-> t]
        accessKey == cleanCredential(config.AccessKey)
        secretKey == cleanCredential(config.SecretKey)
        endpoint == TrimSpace(config.Endpoint)
        bucket == cleanCredential(config.Bucket)
        err == accessKey = <<>> \/ secretKey = <<>> \/ endpoint = <<>> \/ bucket = <<>>
    IN /\ call' = [op |-> "NewS3Storage", config |-> config, err |-> err,
                   client |-> IF err THEN <<>>
                              ELSE <<[endpoint |-> endpoint, accessKey |-> accessKey,
                                      secretKey |-> secretKey, bucket |-> bucket]>>]
       /\ UNCHANGED notCallVars

CleanNext ==
  \/ cleanS3CredentialCall
  \/ NewS3StorageCall

CleanSpec == LogInit /\ [][CleanNext]_vars

\* ------------------------------------------------------------------------
\* the failed branch after the dump: what it logs

\* lines of the dump tool: the mismatch message in lower case and in mixed
\* case, and a progress line
DumpLines ==
  {"pg_dump: error: aborting because of server version mismatch",
   "pg_dump: error: Server Version Mismatch",
   "pg_dump: dumping contents of table"}

\* strings.ToLower
ToLower(line) ==
  IF line = "pg_dump: error: Server Version Mismatch"
  THEN "pg_dump: error: server version mismatch"
  ELSE line

\* strings.Contains(line, "server version mismatch")
ContainsMismatch(line) ==
  line \in {"pg_dump: error: aborting because of server version mismatch",
            "pg_dump: error: server version mismatch"}

isPostgreSQLVersionMismatchError(outputLines) ==
  \E i \in 1..Len(outputLines) : ContainsMismatch(ToLower(outputLines[i]))

\* the lines the failed branch passes to sendLog: the streaming build logs
\* the failure line only, the file-based build adds the explanation
FailedBranchLogs(impl, type, outputLines) ==
  IF impl = "filebased" /\ type = "postgresql" /\ isPostgreSQLVersionMismatchError(outputLines)
  THEN <<"[ERROR] Backup failed", "[INFO] PostgreSQL version mismatch detected.">>
  ELSE <<"[ERROR] Backup failed">>

\* a run whose dump failed after writing outputLines reaches the failed branch
dumpFailed ==
  /\ call = NoCall
  /\ \E impl \in {"streaming", "filebased"}, type \in {"postgresql", "mysql"},
        outputLines \in SeqsUpTo(DumpLines, MaxOutputLines) :
       call' = [op |-> "dumpFailed", impl |-> impl, type |-> type, outputLines |-> outputLines,
                logs |-> FailedBranchLogs(impl, type, outputLines)]
  /\ UNCHANGED notCallVars

FailNext == dumpFailed

FailSpec == LogInit /\ [][FailNext]_vars

\* ------------------------------------------------------------------------
\* the three mutexes of the log streams: sendLog, flushLogQueue,
\* cleanupLogStream, GetLogStream and AppendLog, lock by lock, for several
\* backups.  The pc of a goroutine names the statement it executes next.

notLockVars == <<coordVars, busVars, appenders, logTable, providerVars, scheduleVars, startVars,
                 shareVars, callVars, repoVars, viewVars>>

\* sync.RWMutex: RLock waits for a writer, Lock for the writer and the readers
CanRLock(m) == m.writer = 0

CanLock(m) == m.writer = 0 /\ m.readers = {}

\* a panic in a goroutine ends the process
Panicked == \E t \in Threads : threads[t].pc = "panic"

\* a goroutine turns to its next statement
Goto(t, to) == [threads EXCEPT ![t].pc = to]

\* a goroutine enters one of the functions for a backup; goroutines have no
\* identity, the new one takes the lowest free slot
goroutineCall ==
  /\ lockCalls < MaxLockCalls
  /\ ~Panicked
  /\ \E t \in Threads, b \in BackupIDs,
        entry \in {"sendLog RLock", "flush Lock", "cleanup Lock", "GetLogStream RLock"} :
       /\ threads[t].pc = "idle"
       /\ \A u \in 1..(t - 1) : threads[u].pc # "idle"
       /\ threads' = [threads EXCEPT ![t] = [IdleThread EXCEPT !.pc = entry, !.b = b]]
  /\ lockCalls' = lockCalls + 1
  /\ UNCHANGED <<notLockVars, appendLogMutex, logStreamsMutex, logWriteQueueMutex, logStreams,
                 queueLen>>

\* sendLog: the lookup under the read lock, the non-blocking send after the
\* read lock is released (a send on a closed channel panics), the append to
\* the queue under logWriteQueueMutex
sendLogSteps ==
  \E t \in Threads :
    LET g == threads[t] IN
    \/ /\ g.pc = "sendLog RLock"
       /\ CanRLock(logStreamsMutex)
       /\ logStreamsMutex' = [logStreamsMutex EXCEPT !.readers = @ \cup {t}]
       /\ threads' = Goto(t, "sendLog RUnlock")
       /\ UNCHANGED <<logWriteQueueMutex, queueLen>>
    \/ /\ g.pc = "sendLog RUnlock"
       /\ logStreamsMutex' = [logStreamsMutex EXCEPT !.readers = @ \ {t}]
       /\ threads' = [threads EXCEPT ![t].pc = "sendLog select",
                                     ![t].exists = logStreams[g.b] = "open"]
       /\ UNCHANGED <<logWriteQueueMutex, queueLen>>
    \/ /\ g.pc = "sendLog select"
       /\ threads' = Goto(t, IF g.exists /\ logStreams[g.b] = "closed" THEN "panic"
                             ELSE "sendLog Lock")
       /\ UNCHANGED <<logStreamsMutex, logWriteQueueMutex, queueLen>>
    \/ /\ g.pc = "sendLog Lock"
       /\ logWriteQueueMutex = 0
       /\ logWriteQueueMutex' = t
       /\ threads' = Goto(t, "sendLog Unlock")
       /\ UNCHANGED <<logStreamsMutex, queueLen>>
    \/ /\ g.pc = "sendLog Unlock"
       /\ queueLen' = [queueLen EXCEPT ![g.b] = IF @ < MaxQueueLen THEN @ + 1 ELSE @]
       /\ logWriteQueueMutex' = 0
       /\ threads' = [threads EXCEPT ![t] = IdleThread]
       /\ UNCHANGED logStreamsMutex

\* flushLogQueue: the queue is taken under logWriteQueueMutex, AppendLog is
\* called without it, after "database is locked" the batch is put back under
\* the mutex
flushLogQueueSteps ==
  \E t \in Threads :
    LET g == threads[t] IN
    \/ /\ g.pc = "flush Lock"
       /\ logWriteQueueMutex = 0
       /\ logWriteQueueMutex' = t
       /\ threads' = Goto(t, "flush Unlock")
       /\ UNCHANGED queueLen
    \/ /\ g.pc = "flush Unlock"
       /\ logWriteQueueMutex' = 0
       /\ queueLen' = [queueLen EXCEPT ![g.b] = 0]
       /\ threads' = IF queueLen[g.b] = 0 THEN [threads EXCEPT ![t] = IdleThread]
                     ELSE [threads EXCEPT ![t].pc = "AppendLog Lock",
                                          ![t].batch = queueLen[g.b],
                                          ![t].ret = "flush"]
    \/ /\ g.pc = "requeue Lock"
       /\ logWriteQueueMutex = 0
       /\ logWriteQueueMutex' = t
       /\ threads' = Goto(t, "requeue Unlock")
       /\ UNCHANGED queueLen
    \/ /\ g.pc = "requeue Unlock"
       /\ logWriteQueueMutex' = 0
       /\ queueLen' = [queueLen EXCEPT ![g.b] =
                         IF @ + g.batch < MaxQueueLen THEN @ + g.batch ELSE MaxQueueLen]
       /\ threads' = [threads EXCEPT ![t] = IdleThread]

cleanupLogStreamSteps_NoUnlock ==
  \E t \in Threads :
    LET g == threads[t] IN
    \/ /\ g.pc = "cleanup Lock"
       /\ CanLock(logStreamsMutex)
       /\ logStreamsMutex' = [logStreamsMutex EXCEPT !.writer = t]
       /\ logStreams' = [logStreams EXCEPT ![g.b] = "closed"]
       /\ threads' = Goto(t, "cleanup queue Lock")
       /\ UNCHANGED <<logWriteQueueMutex, queueLen>>
    \/ /\ g.pc = "cleanup queue Lock"
       /\ logWriteQueueMutex = 0
       /\ logWriteQueueMutex' = t
       /\ threads' = Goto(t, "cleanup queue Unlock")
       /\ UNCHANGED <<logStreams, logStreamsMutex, queueLen>>
    \/ /\ g.pc = "cleanup queue Unlock"
       /\ logWriteQueueMutex' = 0
       /\ queueLen' = [queueLen EXCEPT ![g.b] = 0]
       /\ threads' = IF queueLen[g.b] = 0 THEN Goto(t, "cleanup Unlock")
                     ELSE [threads EXCEPT ![t].pc = "AppendLog Lock",
                                          ![t].batch = queueLen[g.b],
                                          ![t].ret = "cleanup"]
       /\ UNCHANGED <<logStreams, logStreamsMutex>>
    \/ /\ g.pc = "cleanup Unlock"
       /\ threads' = [threads EXCEPT ![t] = IdleThread]
       /\ UNCHANGED <<logStreams, logStreamsMutex, logWriteQueueMutex, queueLen>>

\* cleanupLogStream: the write lock is held to the return (defer); under it the
\* channel is closed and deleted, the queue is taken under logWriteQueueMutex
\* and AppendLog is called
cleanupLogStreamSteps ==
  \E t \in Threads :
    LET g == threads[t] IN
    \/ /\ g.pc = "cleanup Lock"
       /\ CanLock(logStreamsMutex)
       /\ logStreamsMutex' = [logStreamsMutex EXCEPT !.writer = t]
       /\ logStreams' = [logStreams EXCEPT ![g.b] = "closed"]
       /\ threads' = Goto(t, "cleanup queue Lock")
       /\ UNCHANGED <<logWriteQueueMutex, queueLen>>
    \/ /\ g.pc = "cleanup queue Lock"
       /\ logWriteQueueMutex = 0
       /\ logWriteQueueMutex' = t
       /\ threads' = Goto(t, "cleanup queue Unlock")
       /\ UNCHANGED <<logStreams, logStreamsMutex, queueLen>>
    \/ /\ g.pc = "cleanup queue Unlock"
       /\ logWriteQueueMutex' = 0
       /\ queueLen' = [queueLen EXCEPT ![g.b] = 0]
       /\ threads' = IF queueLen[g.b] = 0 THEN Goto(t, "cleanup Unlock")
                     ELSE [threads EXCEPT ![t].pc = "AppendLog Lock",
                                          ![t].batch = queueLen[g.b],
                                          ![t].ret = "cleanup"]
       /\ UNCHANGED <<logStreams, logStreamsMutex>>
    \/ /\ g.pc = "cleanup Unlock"
       /\ logStreamsMutex' = [logStreamsMutex EXCEPT !.writer = 0]
       /\ threads' = [threads EXCEPT ![t] = IdleThread]
       /\ UNCHANGED <<logStreams, logWriteQueueMutex, queueLen>>

\* GetLogStream: the lookup under the read lock
GetLogStreamSteps ==
  \E t \in Threads :
    \/ /\ threads[t].pc = "GetLogStream RLock"
       /\ CanRLock(logStreamsMutex)
       /\ logStreamsMutex' = [logStreamsMutex EXCEPT !.readers = @ \cup {t}]
       /\ threads' = Goto(t, "GetLogStream RUnlock")
    \/ /\ threads[t].pc = "GetLogStream RUnlock"
       /\ logStreamsMutex' = [logStreamsMutex EXCEPT !.readers = @ \ {t}]
       /\ threads' = [threads EXCEPT ![t] = IdleThread]

\* AppendLog as flushLogQueue and cleanupLogStream call it: appendLogMutex is
\* held from the first statement to the return; cleanupLogStream goes on to
\* its deferred Unlock, flushLogQueue puts the batch back when the error is
\* "database is locked" and returns otherwise
AppendLogSteps ==
  \E t \in Threads :
    \/ /\ threads[t].pc = "AppendLog Lock"
       /\ MutexFree(appendLogMutex)
       /\ appendLogMutex' = t
       /\ threads' = Goto(t, "AppendLog Unlock")
    \/ /\ threads[t].pc = "AppendLog Unlock"
       /\ appendLogMutex' = 0
       /\ \E locked \in BOOLEAN :
            threads' = CASE threads[t].ret = "cleanup" ->
                              [threads EXCEPT ![t] = [IdleThread EXCEPT !.pc = "cleanup Unlock",
                                                                        !.b = threads[t].b]]
                         [] threads[t].ret = "flush" /\ locked -> Goto(t, "requeue Lock")
                         [] OTHER -> [threads EXCEPT ![t] = IdleThread]

\* a goroutine inside one of the functions executes its next statement
LockStep ==
  /\ ~Panicked
  /\ \/ /\ sendLogSteps
        /\ UNCHANGED <<notLockVars, appendLogMutex, logStreams, lockCalls>>
     \/ /\ flushLogQueueSteps
        /\ UNCHANGED <<notLockVars, appendLogMutex, logStreamsMutex, logStreams, lockCalls>>
     \/ /\ cleanupLogStreamSteps
        /\ UNCHANGED <<notLockVars, appendLogMutex, lockCalls>>
     \/ /\ GetLogStreamSteps
        /\ UNCHANGED <<notLockVars, appendLogMutex, logWriteQueueMutex, logStreams, queueLen, lockCalls>>
     \/ /\ AppendLogSteps
        /\ UNCHANGED <<notLockVars, logStreamsMutex, logWriteQueueMutex, logStreams, queueLen, lockCalls>>

LockNext == goroutineCall \/ LockStep

LockSpec == LogInit /\ [][LockNext]_vars

\* ------------------------------------------------------------------------
\* several viewers of the log stream of one backup: every StreamBackupLogs
\* request receives from the one channel that GetLogStream returns

notViewVars == <<appendVars, providerVars, scheduleVars, startVars, shareVars, callVars, repoVars,
                 lockVars>>

\* the handler writes a frame to its response
Frame(v, l) == [viewers EXCEPT ![v].viewed = Append(@, l)]

streamLogsOf_Broadcast ==
  \E v \in Viewers :
    /\ viewers[v].pc = "streaming"
    /\ \/ /\ logChan # <<>>
          /\ viewers' = Frame(v, Head(logChan))
          /\ logChan' = IF \A u \in Viewers \ {v} :
                             viewers[u].pc # "streaming"
                             \/ \E i \in 1..Len(viewers[u].viewed) :
                                  viewers[u].viewed[i] = Head(logChan)
                        THEN Tail(logChan) ELSE logChan
       \/ /\ logChan = <<>>
          /\ logStream = "closed"
          /\ viewers' = [Frame(v, StreamEnded) EXCEPT ![v].pc = "ended"]
          /\ logChan' = logChan
       \/ /\ viewers' = [viewers EXCEPT ![v].pc = "gone"]
          /\ logChan' = logChan

\* StreamBackupLogs, up to the label streamLogs: GetLogStream, the first frame
\* when there is no channel, the wait loop with its ticker and its timeout
StreamBackupLogsOf ==
  \E v \in Viewers :
    \/ /\ viewers[v].pc = "none"
       /\ viewers' = IF logStream = "open" THEN [viewers EXCEPT ![v].pc = "streaming"]
                     ELSE [Frame(v, Waiting) EXCEPT ![v].pc = "waiting"]
    \/ /\ viewers[v].pc = "waiting"
       /\ \/ /\ logStream = "open"
             /\ viewers' = [viewers EXCEPT ![v].pc = "streaming"]
          \/ viewers' = [Frame(v, NotFound) EXCEPT ![v].pc = "returned"]
          \/ viewers' = [viewers EXCEPT ![v].pc = "gone"]

\* StreamBackupLogs, the loop at streamLogs: a receive that yields a buffered
\* line, a receive on the closed and drained channel, or the request context
\* done
streamLogsOf ==
  \E v \in Viewers :
    /\ viewers[v].pc = "streaming"
    /\ \/ /\ logChan # <<>>
          /\ viewers' = Frame(v, Head(logChan))
          /\ logChan' = Tail(logChan)
       \/ /\ logChan = <<>>
          /\ logStream = "closed"
          /\ viewers' = [Frame(v, StreamEnded) EXCEPT ![v].pc = "ended"]
          /\ logChan' = logChan
       \/ /\ viewers' = [viewers EXCEPT ![v].pc = "gone"]
          /\ logChan' = logChan

ViewersNext ==
  \/ sendLog
  \/ sendLogEnqueue
  \/ cleanupLogStreamClose
  \/ cleanupLogStreamFlush
  \/ /\ StreamBackupLogsOf
     /\ UNCHANGED <<coordVars, busVars, notViewVars>>
  \/ /\ streamLogsOf
     /\ UNCHANGED <<coordVars, logWriteQueue, sender, flushers, backup_logs, viewed, viewer,
                    lockErrors, notViewVars>>

ViewersSpec == LogInit /\ [][ViewersNext]_vars

\* ------------------------------------------------------------------------
\* the downloads of a backup: DownloadBackup of an authenticated user, and
\* CreateShareableLink followed by DownloadViaShareableLink

\* the requests: the user of the request context, the owner of the backup's
\* connection, the provider_id of the request (0: none), whether the backup is
\* bound to provider 1 with an object key, the owner of provider 1, whether
\* GetObject finds the object, whether the file at backup.Path exists
DownloadRequests ==
  [user : Owners, owner : Owners, provider_id : {0, 1}, bound : BOOLEAN,
   providerOwner : Owners, stored : BOOLEAN, localFile : BOOLEAN]

\* GetS3ProviderForDownload: SELECT ... WHERE id = $1 AND user_id = $2
GetS3ProviderForDownload(providerOwner, userID) == providerOwner = userID

\* DownloadBackup: what the response carries
DownloadBackup(q) ==
  LET fromS3 == /\ q.bound
                /\ GetS3ProviderForDownload(q.providerOwner, q.user)
                /\ q.stored
  IN CASE q.provider_id # 0 /\ fromS3 -> "object"
       [] q.provider_id # 0 /\ ~fromS3 -> "400"
       [] q.provider_id = 0 /\ fromS3 -> "object"
       [] q.provider_id = 0 /\ ~fromS3 /\ q.localFile -> "file"
       [] OTHER -> "500"

\* the handler CreateShareableLink: the link is made for the backup id of the
\* URL, whoever the user of the request is
CreateShareableLinkFor(q) == [backup_owner |-> q.owner, provider_id |-> q.provider_id]

\* DownloadViaShareableLink with the token of the link: the binding of the
\* backup, the provider read as the owner of the backup's connection
DownloadViaShareableLink(q, link) ==
  CASE ~q.bound -> "404"
    [] q.bound /\ ~GetS3ProviderForDownload(q.providerOwner, link.backup_owner) -> "500"
    [] q.bound /\ GetS3ProviderForDownload(q.providerOwner, link.backup_owner) /\ ~q.stored -> "500"
    [] OTHER -> "object"

DownloadBackupCall ==
  /\ call = NoCall
  /\ \E q \in DownloadRequests :
       call' = [op |-> "DownloadBackup", q |-> q, response |-> DownloadBackup(q)]
  /\ UNCHANGED notCallVars

ShareAndDownloadCall ==
  /\ call = NoCall
  /\ \E q \in DownloadRequests :
       call' = [op |-> "DownloadViaShareableLink", q |-> q,
                response |-> DownloadViaShareableLink(q, CreateShareableLinkFor(q))]
  /\ UNCHANGED notCallVars

DownloadNext ==
  \/ DownloadBackupCall
  \/ ShareAndDownloadCall

DownloadSpec == LogInit /\ [][DownloadNext]_vars

\* ------------------------------------------------------------------------
\* one SetDefaultProvider request on a table of providers

\* the default rows of owner u in a table
DefaultsIn(table, u) == {r \in RowIDs : table[r].user_id = u /\ table[r].is_default}

\* the tables of providers with at most one default an owner
ProviderTables ==
  {t \in [RowIDs -> {NoProvider} \cup [user_id : Owners, is_default : BOOLEAN]] :
     \A u \in Owners : Cardinality(DefaultsIn(t, u)) <= 1}

\* SetDefaultProvider of the repository, the two statements one after the
\* other, each with its error; the handler answers 500 on err
SetDefaultProvider(table, userID, providerID, ok1, ok2) ==
  CASE ~ok1 -> [table |-> table, err |-> TRUE]
    [] ok1 /\ ~ok2 -> [table |-> UnsetDefaults(table, userID), err |-> TRUE]
    [] OTHER -> [table |-> SetIsDefault(UnsetDefaults(table, userID), userID, providerID, TRUE),
                 err |-> FALSE]

SetDefaultProviderRequest ==
  /\ call = NoCall
  /\ \E table \in ProviderTables, userID \in Owners, providerID \in RowIDs, ok1, ok2 \in BOOLEAN :
       call' = [op |-> "SetDefaultProvider", before |-> table, userID |-> userID,
                providerID |-> providerID,
                out |-> SetDefaultProvider(table, userID, providerID, ok1, ok2)]
  /\ UNCHANGED notCallVars

DefaultNext == SetDefaultProviderRequest

DefaultSpec == LogInit /\ [][DefaultNext]_vars

\* ------------------------------------------------------------------------
\* properties of one run of the coordinator

\* sinks of the resolved list that received the backup, and sinks that failed
Succeeded == (IF pipe.up = "ok" THEN 1 ELSE 0) + fan.successCount

Failed == (IF pipe.up = "err" THEN 1 ELSE 0) + fan.uploadErrors
          + (IF locals.legacy = "uploadErr" THEN 1 ELSE 0)

DumpFailed == locals.cmdErr \/ locals.outputErr \/ locals.copyErr

NoBindings == \A p \in ProviderIDs : bindings[p] = 0

\* errors of the environment the coordinator reports before it has a dump
EnvironmentErrors ==
  {"[ERROR] Failed to setup SSH tunnel", "[ERROR] toolMissing", "[ERROR] pipeErr",
   "[ERROR] startErr", "[ERROR] Backup failed"}

NoSinkConfigured ==
  /\ world.ids = <<>>
  /\ world.owned = {}
  /\ world.default = 0
  /\ locals.legacy \in {"none", "disabled"}

\* C1: when executeBackup has returned, on whichever path, the backup's row
\* holds a terminal status.
C1_ReturnedRunIsTerminal ==
  pc = "returned" => row.status \in Terminal

\* C2: after an upload error of the first sink the coordinator can always go
\* on until it has returned with the backup persisted as failed, with a
\* completion time and without a binding: it is never stuck before that.
C2_UploadErrorStillFinishes ==
  pipe.up = "err" =>
    \/ ENABLED Next
    \/ /\ pc = "returned"
       /\ row.status = "failed"
       /\ row.completed_time
       /\ NoBindings

\* C3: a run whose dump succeeded and of whose resolved sinks at least one but
\* not all received the backup ends as completed_with_errors.
C3_PartialIsCompletedWithErrors ==
  (/\ pc = "returned"
   /\ row.status \in Terminal
   /\ ~DumpFailed
   /\ 0 < Succeeded
   /\ Succeeded < Len(providers))
  => row.status = "completed_with_errors"

\* C4 (as stated): a finished run in which no sink succeeded and at least one
\* failed has status failed.
C4_AllFailedIsFailed ==
  (pc = "returned" /\ row.status \in Terminal /\ Succeeded = 0 /\ Failed > 0)
  => row.status = "failed"

\* C4 (amended): a finished run in which no sink succeeded and at least one
\* failed has status failed when the streamed upload to the first sink failed,
\* and status completed_with_errors when the dump was complete and every
\* upload of the staging file failed.
C4_AllFailedByMode ==
  (pc = "returned" /\ row.status \in Terminal /\ Succeeded = 0 /\ Failed > 0)
  => row.status = IF pipe.up = "err" THEN "failed" ELSE "completed_with_errors"

C4_Witness ==
  /\ pc = "returned"
  /\ row.status = "completed_with_errors"
  /\ fan.successCount = 0
  /\ fan.uploadErrors = Len(providers)
  /\ Len(providers) > 1

\* C5: a run without any configured sink that met no error of its environment
\* ends with status success and with the staging file in place.
C5_NoSinkIsLocalSuccess ==
  (pc = "returned" /\ NoSinkConfigured /\ logged \cap EnvironmentErrors = {})
  => (row.status = "success" /\ stagingFile)

\* C6: once the persisted row holds a terminal status no step changes the row.
C6_TerminalIsAbsorbing ==
  [][row.status \in Terminal => row' = row]_vars

C6_Witness ==
  /\ row.status \in Terminal
  /\ pc = "returned"
  /\ logStream = "closed"
  /\ notified # {}

\* C7: when the run has returned, a provider has a binding exactly when an
\* object of the run is stored in that provider under the key of the binding.
C7_BindingIffObject ==
  pc = "returned" =>
    /\ \A p \in ProviderIDs : bindings[p] # 0 => <<p, bindings[p]>> \in objects
    /\ \A o \in objects : o[1] \in ProviderIDs => bindings[o[1]] = o[2]

\* C8: a persisted row with an object key has a provider id.
C8_KeyImpliesProvider ==
  row.s3_object_key # 0 => row.s3_provider_id # 0

\* C9: a persisted row has a completion time exactly when its status is
\* terminal.
C9_CompletedTimeIffTerminal ==
  row.status # "none" => (row.completed_time <=> row.status \in Terminal)

C9_Witness ==
  /\ row.status = "completed_with_errors"
  /\ row.completed_time
  /\ fan.successCount > 0

\* C22: a run that has returned with a terminal status has notified that
\* status: a failure notification for failed, a success notification for
\* success, some notification for completed_with_errors, and no success
\* notification for a failed backup.
C22_TerminalStatusNotified ==
  (pc = "returned" /\ backup.Status \in Terminal)
    => /\ backup.Status = "failed" => ("failure" \in notified /\ "success" \notin notified)
       /\ backup.Status = "success" => "success" \in notified
       /\ notified # {}

\* a run that staged the dump in a local file and went through the uploads of
\* that file up to its final status
FileRunFinished ==
  pc = "returned" /\ \E s \in Terminal : ("status: " \o s) \in logged

\* C24: after a run in file mode the local staging file has been removed
\* exactly when at least one sink upload of the run succeeded, through the
\* provider list or through the legacy upload of the user settings.
C24_StagingRemovedIffUploaded ==
  FileRunFinished => (~stagingFile <=> (fan.successCount > 0 \/ locals.legacy = "ok"))

\* goroutines reading the output of the subprocess that have not returned:
\* the stderr scanner, the stdout scanner of the file-based build, the stdout
\* copy of the streaming build
StderrScannerRuns == pipe.stderr = "reading"

StdoutScannerRuns == pipe.stdout = "reading"

StdoutCopyRuns == pipe.copy \in {"reading", "writing"}

\* C29: when the coordinator evaluates cmdErr, outputErr, copyErr and
\* outputLines every goroutine reading stdout or stderr has returned, and two
\* readers that write the same variables (outputLines and outputErr, written
\* by both scanners of the file-based build without a lock) never run at the
\* same time.
C29_ReadersReturnedBeforeEvaluate ==
  /\ pc = "evaluate" => ~StderrScannerRuns /\ ~StdoutCopyRuns
  /\ ~(StdoutScannerRuns /\ StderrScannerRuns)

\* the workers of uploadToAdditionalS3Providers have been started in a run
\* that streamed to the first sink
AdditionalStarted == pipe.up # "none" /\ fan.wk # <<>>

\* C30: in streaming mode no upload to an additional sink starts before the
\* upload to the first sink has returned successfully and the dump subprocess
\* has exited without error.
C30_AdditionalAfterFirstSink ==
  (pc \in {"additional", "copyCollect"} \/ AdditionalStarted)
  => /\ pipe.up = "ok"
     /\ <<providers[1], StreamKey(providers[1])>> \in objects
     /\ cmd.state = "exited"
     /\ ~cmd.err
     /\ ~StreamFailed(locals)

C30_Witness ==
  /\ pc = "copyCollect"
  /\ Len(providers) > 1
  /\ \E i \in 1..Len(fan.wk) : fan.wk[i] = "done"
  /\ \E p \in ProviderIDs : p # providers[1] /\ <<p, StreamKey(p)>> \in objects

\* the uploads of the staging file have been started
FileUploadsStarted == pipe.up = "none" /\ fan.wk # <<>>

\* the upload of provider i has not begun because the loop is still at an
\* earlier provider
WaitsForEarlier(i) ==
  /\ pc = "uploadLoop"
  /\ fan.wk[i] = "run"
  /\ \E j \in 1..(i - 1) : fan.wk[j] = "run"

\* C31: in file mode the uploads of the staging file start only after the
\* dump subprocess of the run has exited cleanly, and they run in parallel,
\* one worker per sink: no upload waits for the upload to another sink.
C31_FileUploadsAfterCleanExit ==
  FileUploadsStarted
  => /\ cmd.state = "exited" /\ ~cmd.err
     /\ \A i \in 1..Len(fan.wk) : ~WaitsForEarlier(i)

\* ------------------------------------------------------------------------
\* properties of the log bus

\* the line is in the queue or in the batch of a goroutine that will write it
\* or put it back
Held(l) ==
  \/ l \in Range(logWriteQueue)
  \/ \E f \in BagToSet(flushers) : l \in Range(f.logs)
  \/ l \in Range(sender.batch)

Stored(l) == \E i \in 1..Len(backup_logs) : backup_logs[i].log_line = l

\* C10: every non-empty line that sendLog has accepted is in backup_logs, or
\* still in the queue or in a batch on its way to backup_logs.
C10_NoLineLost ==
  \A l \in Range(sender.emitted) : l.text # "" => Held(l) \/ Stored(l)

\* C11: the rows of backup_logs, read in the order of line_number, hold the
\* lines of the one sending goroutine in the order in which it sent them.
C11_StoredInEmitOrder ==
  \A i, j \in 1..Len(backup_logs) :
    backup_logs[i].line_number < backup_logs[j].line_number
      => backup_logs[i].log_line.id <= backup_logs[j].log_line.id

\* the sending goroutine has returned and no goroutine holds a batch
BusQuiet ==
  /\ sender.pc = "done"
  /\ flushers = EmptyBag
  /\ logWriteQueue = <<>>

\* C13: sendLog can always proceed whatever the viewer does, and once the run
\* and its flushes are over every non-empty line sent after the viewer
\* disconnected is in backup_logs, where GetBackupLogs reads it.
C13_LinesAfterDisconnectStored ==
  /\ (sender.pc = "idle" /\ Len(sender.emitted) < MaxLines) => ENABLED sendLog
  /\ (BusQuiet /\ viewer.pc = "gone")
       => \A l \in Range(sender.emitted) :
            (l.id > viewer.at /\ l.text # "") => Stored(l)

\* C14: once the channel is closed, a buffered line leaves it only as the
\* next frame of the attached viewer; the viewer that finds the channel closed
\* has drained it and has [STREAM ENDED] as its last frame and nowhere else;
\* after that frame the handler writes nothing more.
C14_DrainThenStreamEnded ==
  /\ [][(logStream = "closed" /\ logChan' # logChan)
          => /\ viewer.pc = "streaming"
             /\ logChan' = Tail(logChan)
             /\ viewed' = Append(viewed, Head(logChan))]_vars
  /\ [](viewer.pc = "ended"
          => /\ logChan = <<>>
             /\ viewed[Len(viewed)] = StreamEnded
             /\ \A i \in 1..(Len(viewed) - 1) : viewed[i] # StreamEnded)
  /\ [][viewer.pc = "ended" => (viewed' = viewed /\ viewer' = viewer)]_vars
  /\ []((viewer.pc = "streaming" /\ logStream = "closed" /\ logChan = <<>>)
          => ENABLED viewerStreamEnded)

\* the channel is closed with a line still buffered for the attached viewer
C14_Witness ==
  /\ logStream = "closed"
  /\ logChan # <<>>
  /\ viewer.pc = "streaming"
  /\ viewed # <<>>

\* ------------------------------------------------------------------------
\* properties of AppendLog

\* C12: for every backup id the line_number values of its rows are exactly
\* 1..n, each once.
C12_LineNumbersDense ==
  \A b \in BackupIDs :
    /\ {logTable[b][i].line_number : i \in 1..Len(logTable[b])} = 1..Len(logTable[b])
    /\ \A i, j \in 1..Len(logTable[b]) :
         logTable[b][i].line_number = logTable[b][j].line_number => i = j

C12_Witness ==
  \E b \in BackupIDs, c \in Appenders :
    /\ \E i \in 1..Len(logTable[b]) : logTable[b][i].log_line # c
    /\ \E o \in BackupIDs \ {b} : logTable[o] # <<>>
    /\ appenders[c].pc = "insert"
    /\ appenders[c].backupID = b
    /\ appenders[c].attempt > 0

\* ------------------------------------------------------------------------
\* properties of the S3 providers

Defaults(u) == {r \in RowIDs : s3_providers[r].user_id = u /\ s3_providers[r].is_default}

\* C15: in every state, also between the statements of concurrent requests,
\* an owner has at most one provider row with is_default = 1.
C15_AtMostOneDefault ==
  \A u \in Owners : Cardinality(Defaults(u)) <= 1

\* ------------------------------------------------------------------------
\* properties of the start of the service

\* the schedule that the cron job registered for id runs
JobOf(id) ==
  IF cronEntries[id].captured = 0 THEN boot.schedule ELSE cronEntries[id].captured

ImmediateRuns(id) == Cardinality({k \in 1..Len(boot.immediate) : boot.immediate[k] = id})

InProgress(conn) ==
  {id \in 1..Len(backups) : backups[id].connection_id = conn /\ backups[id].status = "in_progress"}

\* C17: a connection never has two backups in_progress.
C17_OneInProgressPerConnection ==
  \A conn \in Connections : Cardinality(InProgress(conn)) <= 1

\* C18: two backups of one connection that are in progress together have
\* different staging paths and different filenames.
C18_DistinctPaths ==
  \A conn \in Connections : \A i, j \in InProgress(conn) :
    i # j => (backups[i].path # backups[j].path /\ backups[i].filename # backups[j].filename)

\* ------------------------------------------------------------------------
\* properties of shareable links

\* the stored expires_at of the token is before the present instant
InThePast(t) == shareable_links[t].expires_at * TicksPerSecond < clock

\* C19: a resolve that finds no row for its token, or a row whose expires_at
\* is in the past, returns an error and no pair and leaves every access_count
\* as it was.
C19_InvalidTokenRejected ==
  [][\A c \in Resolvers :
       (/\ resolvers[c].pc = "select"
        /\ resolvers'[c] # resolvers[c]
        /\ (~shareable_links[resolvers[c].token].exists \/ InThePast(resolvers[c].token)))
       => /\ resolvers'[c].pc = "idle"
          /\ resolvers'[c].out.err
          /\ resolvers'[c].out.backupID = 0
          /\ resolvers'[c].out.providerID = 0
          /\ shareable_links' = shareable_links]_vars

\* a resolve of a link that was used before it expired has been refused
C19_Witness ==
  \E c \in Resolvers :
    /\ resolvers[c].pc = "idle"
    /\ resolvers[c].out.err
    /\ resolvers[c].out.token # 0
    /\ InThePast(resolvers[c].out.token)
    /\ shareable_links[resolvers[c].out.token].access_count = 1

\* C20: for every token access_count is the number of resolves that returned
\* the pair without error.
C20_AccessCountIsResolves ==
  \A t \in Tokens : shareable_links[t].access_count = resolved.ok[t]

\* a resolve of a token has succeeded and another one is between its SELECT
\* and its UPDATE
C20_Witness ==
  \E t \in Tokens, c \in Resolvers :
    /\ shareable_links[t].access_count >= 1
    /\ resolvers[c].pc = "update"
    /\ resolvers[c].token = t
    /\ \E d \in Resolvers \ {c} : resolvers[d].out.token = t /\ ~resolvers[d].out.err /\ resolvers[d].pc = "idle"

\* ------------------------------------------------------------------------
\* properties of the lifetime of a share token

\* C21: whatever expires_in the request carries, the link lives between 1 and
\* 168 hours; a missing or non-positive value gives 24 hours, a value above
\* 168 gives 168 hours, and any other value is taken as it is.
C21_ExpiresInClamped ==
  call.op = "shared"
    => LET e == call.body.expires_in
           h == call.expiresInHours
       IN /\ h \in 1..168
          /\ (~call.body.present \/ e <= 0) => h = 24
          /\ (call.body.present /\ e > 168) => h = 168
          /\ (call.body.present /\ e \in 1..168) => h = e

\* a link was made for a request that asked for more than 168 hours
C21_Witness ==
  /\ call.op = "shared"
  /\ call.body.present
  /\ call.body.expires_in > 168
  /\ call.expiresInHours = 168

\* line id waits in logWriteQueue
Queued(id) == \E i \in 1..Len(logWriteQueue) : logWriteQueue[i].id = id

\* line id is in the batch of an AppendLog call of a flush goroutine or of
\* cleanupLogStream
PassedToAppendLog(id) ==
  \/ \E f \in BagToSet(flushers) :
       f.pc = "append" /\ \E i \in 1..Len(f.logs) : f.logs[i].id = id
  \/ sender.pc = "flush" /\ \E i \in 1..Len(sender.batch) : sender.batch[i].id = id

\* C28: every line sendLog has put into logWriteQueue is eventually in the
\* batch of an AppendLog call, so no line stays in the queue forever.
C28_QueuedLineIsFlushed ==
  \A id \in 1..MaxLines : Queued(id) ~> PassedToAppendLog(id)

\* a line that a delayed flush, not cleanupLogStream, passes to AppendLog
\* after a lock error put it back into the queue
C28_Witness ==
  /\ lockErrors > 0
  /\ sender.pc = "idle"
  /\ Len(sender.emitted) = MaxLines
  /\ \E f \in BagToSet(flushers) :
       /\ f.pc = "append"
       /\ \E i \in 1..Len(f.logs) : f.logs[i].id = MaxLines

\* ------------------------------------------------------------------------
\* properties of retention

\* C23: GetBackupsOlderThan(connection, cutoff) returns every backup of that
\* connection that the coordinator finished with status success and that was
\* created before the cutoff, and no backup of another connection or created at
\* or after the cutoff
C23_OlderThanReturnsSuccessful ==
  call.op = "olderThan"
    => \A id \in 1..Len(backups) :
         /\ (/\ backups[id].connection_id = call.connectionID
             /\ backups[id].status = "success"
             /\ backups[id].created_at < call.cutoffTime) => id \in call.backups
         /\ id \in call.backups => /\ backups[id].connection_id = call.connectionID
                                   /\ backups[id].created_at < call.cutoffTime

\* ------------------------------------------------------------------------
\* properties of the repository

\* the columns UpdateBackup writes besides logs
Columns(r) ==
  <<r.status, r.path, r.s3_object_key, r.s3_provider_id, r.size, r.started_time,
    r.completed_time>>

\* C25: a successful UpdateBackup called with Logs nil or empty leaves the
\* stored logs column and all backup_logs rows as they were, and sets status,
\* path, object key, provider id, size, started time, completed time and
\* updated_at from its argument and the clock.
C25_UpdateBackupKeepsLogs ==
  (call.op = "UpdateBackup" /\ ~call.err
     /\ (~call.backup.Logs.valid \/ call.backup.Logs.text = <<"">>))
  => /\ db.backups.logs = call.before.backups.logs
     /\ db.backup_logs = call.before.backup_logs
     /\ Columns(db.backups) = <<call.backup.Status, call.backup.Path, call.backup.S3ObjectKey,
                                call.backup.S3ProviderID, call.backup.Size,
                                call.backup.StartedTime, call.backup.CompletedTime>>
     /\ db.backups.updated_at = call.now

C25_Witness ==
  /\ call.op = "UpdateBackup" /\ ~call.err
  /\ ~call.backup.Logs.valid
  /\ call.before.backups.logs.valid
  /\ call.before.backups.logs.text # <<"">>
  /\ call.before.backup_logs # <<>>
  /\ db.backups.status = "success"
  /\ call.before.backups.status = "in_progress"

\* C26: AppendLog on a database without the backup_logs table appends the
\* text to the logs column of the backups row and returns no error; on a
\* database with the table it leaves the backups row alone.  (Calls that end
\* with "database is locked" are left aside.)
C26_AppendLogFallsBack ==
  (call.op = "AppendLog" /\ call.err # "database is locked")
  => IF "backup_logs" \notin call.before.tables
     THEN /\ call.err = "nil"
          /\ db.backups.logs = appendLogLegacy(call.before.backups, call.logLine, 0).logs
          /\ db.backup_logs = call.before.backup_logs
     ELSE /\ call.err = "nil"
          /\ db.backups = call.before.backups

\* ------------------------------------------------------------------------
\* properties of credential cleaning

Clean(s) == \A i \in 1..Len(s) : ~IsSpace(s[i]) /\ ~IsControl(s[i])

\* e is s without its leading and trailing white space
Trimmed(s, e) ==
  /\ e # <<>> => ~IsSpace(e[1]) /\ ~IsSpace(e[Len(e)])
  /\ \E i \in 1..(Len(s) + 1) :
       /\ i + Len(e) - 1 <= Len(s)
       /\ e = SubSeq(s, i, i + Len(e) - 1)
       /\ \A k \in 1..Len(s) : (k < i \/ k > i + Len(e) - 1) => IsSpace(s[k])

\* C27: for every input string cleanS3Credential returns a string without
\* white space and without control code points; the client NewS3Storage
\* creates gets access key, secret key and bucket cleaned in that way, and
\* the endpoint with only its leading and trailing white space removed.
C27_CredentialsCleaned ==
  /\ call.op = "cleanS3Credential" => Clean(call.out)
  /\ (call.op = "NewS3Storage" /\ ~call.err)
       => LET c == call.client[1] IN
          /\ Clean(c.accessKey) /\ Clean(c.secretKey) /\ Clean(c.bucket)
          /\ Trimmed(call.config.Endpoint, c.endpoint)

C27_Witness ==
  /\ call.op = "NewS3Storage" /\ ~call.err
  /\ call.config.AccessKey = <<" ", "a", "NUL">>
  /\ call.config.SecretKey = <<"a", "\n", "a">>
  /\ call.client[1].secretKey = <<"a", "a">>
  /\ call.client[1].endpoint = <<"a", "NUL">>

\* ------------------------------------------------------------------------
\* properties of the failed branch

\* C32: when the dump of a PostgreSQL backup fails and one of its output
\* lines contains "server version mismatch" in any case, the logs hold the
\* version-mismatch explanation besides the failure line, in both builds.
C32_VersionMismatchExplained ==
  (/\ call.op = "dumpFailed"
   /\ call.type = "postgresql"
   /\ \E i \in 1..Len(call.outputLines) :
        call.outputLines[i] \in {"pg_dump: error: aborting because of server version mismatch",
                                 "pg_dump: error: Server Version Mismatch"})
  => /\ "[ERROR] Backup failed" \in Range(call.logs)
     /\ "[INFO] PostgreSQL version mismatch detected." \in Range(call.logs)

\* ------------------------------------------------------------------------
\* properties of the mutexes of the log streams

\* C33: no goroutine sends on a log channel that has been closed, whatever
\* the interleaving of sendLog with cleanupLogStream.
C33_NoSendOnClosedChannel ==
  ~Panicked

\* a goroutine is inside one of the functions
Busy == ~Panicked /\ \E t \in Threads : threads[t].pc # "idle"

\* C35: the three mutexes are never held in a cyclic wait: as long as a
\* goroutine is inside sendLog, flushLogQueue, cleanupLogStream, GetLogStream
\* or AppendLog, for whichever backups, some goroutine can take a step.
C35_NoDeadlock ==
  Busy => ENABLED LockStep

\* a chain of waits: a goroutine waits for the read lock of logStreamsMutex,
\* which cleanupLogStream holds while it waits for logWriteQueueMutex, which
\* a sendLog holds
C35_Witness ==
  \E t, u, v \in Threads :
    /\ threads[t].pc = "cleanup queue Lock" /\ logStreamsMutex.writer = t
    /\ threads[u].pc = "sendLog Unlock" /\ logWriteQueueMutex = u
    /\ threads[v].pc \in {"sendLog RLock", "GetLogStream RLock"}

\* ------------------------------------------------------------------------
\* properties of the retry of a failed flush

\* C34: each line passed to sendLog is written to backup_logs at most once,
\* also when AppendLog fails with "database is locked" and flushLogQueue
\* retries the batch.
C34_WrittenAtMostOnce ==
  \A i, j \in 1..Len(backup_logs) :
    backup_logs[i].log_line.id = backup_logs[j].log_line.id => i = j

\* ------------------------------------------------------------------------
\* properties of the life of a log channel

\* C36: a log channel registered in logStreams is closed and removed on
\* every path that follows its creation: once StartBackup has returned an
\* error, after which nothing of the run is left to act, the channel is
\* closed.
C36_ErrorReturnClosesStream ==
  pc = "rejected" => logStream = "closed"

\* ------------------------------------------------------------------------
\* properties of several viewers of one log stream

\* the number of frames of viewer v that carry line id
Delivered(v, id) ==
  Cardinality({i \in 1..Len(viewers[v].viewed) : viewers[v].viewed[i].id = id})

\* the frames a viewer has been written
Frames(v) == {viewers[v].viewed[i] : i \in 1..Len(viewers[v].viewed)}

\* C37: of several viewers attached to the log stream of one backup, each line
\* sent on the channel is delivered to one of them only and once (the viewers
\* split the lines), and every attached viewer whose request ends otherwise
\* than by its disconnection has received the [STREAM ENDED] frame.
C37_SplitNotBroadcast ==
  /\ \A id \in 1..MaxLines :
       /\ \A v, u \in Viewers : (Delivered(v, id) > 0 /\ Delivered(u, id) > 0) => v = u
       /\ \A v \in Viewers : Delivered(v, id) <= 1
  /\ \A v \in Viewers :
       /\ viewers[v].pc = "ended" <=> StreamEnded \in Frames(v)
       /\ (viewers[v].pc = "streaming" /\ logStream = "closed" /\ logChan = <<>>)
            => ENABLED (streamLogsOf /\ viewers'[v].pc = "ended")

\* two viewers were attached, each has received a line of its own, and both
\* have received the [STREAM ENDED] frame
C37_Witness ==
  /\ \A v \in Viewers : viewers[v].pc = "ended"
  /\ \E v, u \in Viewers :
       /\ v # u
       /\ \E id \in 1..MaxLines : Delivered(v, id) = 1 /\ Delivered(u, id) = 0
       /\ \E id \in 1..MaxLines : Delivered(u, id) = 1 /\ Delivered(v, id) = 0

\* ------------------------------------------------------------------------
\* properties of the downloads

\* C38: an authenticated user obtains the content of a backup only if the
\* backup's connection belongs to that user, by DownloadBackup (object or
\* local file) as by CreateShareableLink and DownloadViaShareableLink.
C38_OnlyOwnerDownloads ==
  (call.op \in {"DownloadBackup", "DownloadViaShareableLink"}
   /\ call.response \in {"object", "file"})
  => call.q.user = call.q.owner

\* ------------------------------------------------------------------------
\* properties of the binding rows

\* C39: however often AddBackupS3Provider has been called for a (backup,
\* provider) pair, the one binding row of the pair holds an object key that
\* was passed to the call, the key of the latest call; every call of a run
\* for provider p passes the key of the run's upload to p.
C39_BindingKeepsPassedKey ==
  \A p \in ProviderIDs : bindings[p] # 0 => bindings[p] \in {StreamKey(p), FileKey(p)}

\* ------------------------------------------------------------------------
\* properties of one SetDefaultProvider request

\* C40: after SetDefaultProvider(owner, id) has returned without error,
\* provider id is the owner's only default; a call with an id that is not one
\* of the owner's providers leaves the owner's default as it was.
C40_SetDefaultProvider ==
  call.op = "SetDefaultProvider" =>
    /\ ~call.out.err => DefaultsIn(call.out.table, call.userID) = {call.providerID}
    /\ call.before[call.providerID].user_id # call.userID
         => DefaultsIn(call.out.table, call.userID) = DefaultsIn(call.before, call.userID)
====
